---------------------------- MODULE Spec2Model ----------------------------
(***************************************************************************)
(* Model of the reconciliation code of the Alibaba cloud provider:         *)
(*   - the route family (package route): the process-wide route lock, the  *)
(*     create backoff, CIDR containment, conflict detection and            *)
(*     syncTableRoutes;                                                    *)
(*   - the load-balancer appliers (packages nlbv2 and clbv1): Apply and    *)
(*     its phases.                                                         *)
(* The cloud is the environment: every cloud call may succeed or fail.     *)
(***************************************************************************)
EXTENDS Integers, Sequences, FiniteSets, TLC

VARIABLES
    \* ---- route lock and its callers (package route) ----
    routeLock,   \* sync.Mutex routeLock: 0 when free, else the caller holding it
    rpc,         \* rpc[p]: where caller p is
    rop,         \* rop[p]: the function caller p is executing
    rargs,       \* rargs[p]: [table, providerID, cidr] of the call
    steps,       \* steps[p]: backoff.Steps of the running ExponentialBackoff
    rtrace,      \* rtrace[p]: the cloud calls made by the current call, with their answers
    rout,        \* rout[p]: what the call returned: [route, err]
    \* ---- one call of a pure function of package route ----
    fcall,       \* the function called and its arguments
    fresult,     \* what it returned
    \* ---- one call of ReconcileRoute.syncTableRoutes ----
    clusterCIDR, \* ctrlCfg.ControllerCFG.ClusterCIDR, a text
    nodes,       \* the NodeList passed in
    table,       \* the routes of the table in the cloud
    routes,      \* the list ListRoute returned
    spc,         \* where the call is
    ri,          \* the index of the route loop
    ni,          \* the index of the node loop
    slog,        \* the route mutations attempted, in order, with their outcome
    sret,        \* what the call returned
    \* ---- one call of ModelApplier.Apply (packages nlbv2 and clbv1) ----
    applier,     \* the package of the applier: "nlb" or "clb"
    req,         \* reqCtx: the service, its annotations and the controller configuration
    local,       \* the desired model
    remote,      \* the observed model
    cloud,       \* the load balancer, the backend groups and the listeners in the cloud
    apc,         \* where the call is
    ai,          \* the index of the running loop
    plan,        \* the actions planned by the running phase and not executed yet
    errs,        \* the errors collected so far
    calls,       \* the cloud calls made, in order, with their phase and outcome
    aret,        \* what the call returned
    given,       \* the local model as the caller built it, the cloud as the call found it,
                 \* which call of Apply runs and the calls made before it
    \* ---- one call of ReconcileRoute.batchAddRoutes or batchDeleteRoutes ----
    bop,         \* the function called
    broutes,     \* the routes passed in: the name of the node of each
    bstatuses,   \* the statuses the cloud returned
    bpc,         \* where the call is
    bi,          \* the index of the status loop
    nodeCache,   \* r.nodeCache: the nodes that have a cached route
    blog,        \* what was done for each status, in order
    bret         \* what the call returned

routeVars == <<routeLock, rpc, rop, rargs, steps, rtrace, rout>>
funcVars == <<fcall, fresult>>
syncVars == <<clusterCIDR, nodes, table, routes, spc, ri, ni, slog, sret>>

applyVars == <<applier, req, local, remote, cloud, apc, ai, plan, errs, calls, aret>>
batchVars == <<bop, broutes, bstatuses, bpc, bi, nodeCache, blog, bret>>

\* What an action of one part leaves alone: the variables of the other parts.
\* A step of Apply also leaves alone what the caller gave to the call.
notRouteVars == <<funcVars, syncVars, applyVars, given, batchVars>>
notFuncVars == <<routeVars, syncVars, applyVars, given, batchVars>>
notSyncVars == <<routeVars, funcVars, applyVars, given, batchVars>>
notApplyVars == <<routeVars, funcVars, syncVars, given, batchVars>>
notBatchVars == <<routeVars, funcVars, syncVars, applyVars, given>>

vars == <<routeVars, funcVars, syncVars, applyVars, given, batchVars>>

-----------------------------------------------------------------------------
(* Bounds of the model *)

NumCallers == 2

\* The width of an address in bits (net.IP has 32), and the longest node list.
AddrBits == 2
MaxNodes == 2

\* The most routes in a table.
MaxRoutes == 2

-----------------------------------------------------------------------------
(***************************************************************************)
(* Package route: routeLock, createRouteForInstance,                       *)
(* deleteRouteForInstance, LockedCreateRoutes, LockedDeleteRoutes           *)
(***************************************************************************)

Callers == 1..NumCallers

Tables == {"vtb-1", "vtb-2"}
ProviderIDs == {"i-a"}
CallCidrs == {"10.1.0.0/24"}

RouteOps == {"createRouteForInstance", "deleteRouteForInstance",
             "LockedCreateRoutes", "LockedDeleteRoutes"}

\* createBackoff.Steps
BackoffSteps == 3

\* The cloud's answers.  CreateRoute: a route, an error whose text contains
\* "InvalidCIDRBlock.Duplicate", or any other error.  FindRoute: a route, (nil, nil),
\* or an error.  The other calls: success or an error.
CreateAnswers == {"ok", "dup", "other"}
FindAnswers == {"found", "none", "err"}
PlainAnswers == {"ok", "err"}

NoArgs == [table |-> "", providerID |-> "", cidr |-> ""]
NoOut == [route |-> "unset", err |-> "unset"]

\* The cloud call in flight at each position, if any.
MutationPcs == {"CreateRoute", "DeleteRoute", "CreateRoutes", "DeleteRoutes"}

FirstCall(o) ==
    CASE o = "createRouteForInstance" -> "backoff"
      [] o = "deleteRouteForInstance" -> "DeleteRoute"
      [] o = "LockedCreateRoutes" -> "CreateRoutes"
      [] o = "LockedDeleteRoutes" -> "DeleteRoutes"

Event(call, a, ans) == [call |-> call, args |-> a, ans |-> ans]

\* A caller enters one of the four lock-guarded functions.
Call(p, o, a) ==
    /\ rpc[p] \in {"idle", "done"}
    /\ rpc' = [rpc EXCEPT ![p] = "lock"]
    /\ rop' = [rop EXCEPT ![p] = o]
    /\ rargs' = [rargs EXCEPT ![p] = a]
    /\ rtrace' = [rtrace EXCEPT ![p] = <<>>]
    /\ rout' = [rout EXCEPT ![p] = NoOut]
    /\ steps' = [steps EXCEPT ![p] = 0]
    /\ UNCHANGED routeLock
    /\ UNCHANGED notRouteVars

\* A mutant: the lock is taken without waiting for it to be free.
LockNoWait(p) ==
    /\ rpc[p] = "lock"
    /\ routeLock' = p
    /\ rpc' = [rpc EXCEPT ![p] = FirstCall(rop[p])]
    /\ steps' = [steps EXCEPT ![p] =
                    IF rop[p] = "createRouteForInstance" THEN BackoffSteps ELSE 0]
    /\ UNCHANGED <<rop, rargs, rtrace, rout>>
    /\ UNCHANGED notRouteVars

\* routeLock.Lock(): blocks until the lock is free.  createRouteForInstance then
\* starts ExponentialBackoff with a copy of createBackoff; the others make their call.
Lock(p) ==
    /\ rpc[p] = "lock"
    /\ routeLock = 0
    /\ routeLock' = p
    /\ rpc' = [rpc EXCEPT ![p] = FirstCall(rop[p])]
    /\ steps' = [steps EXCEPT ![p] =
                    IF rop[p] = "createRouteForInstance" THEN BackoffSteps ELSE 0]
    /\ UNCHANGED <<rop, rargs, rtrace, rout>>
    /\ UNCHANGED notRouteVars

\* wait.ExponentialBackoff: "for backoff.Steps > 0 { condition() ... }"; the
\* condition starts with providerIns.CreateRoute(ctx, table, providerID, cidr).
BackoffAttempt(p) ==
    /\ rpc[p] = "backoff"
    /\ IF steps[p] > 0
       THEN /\ rpc' = [rpc EXCEPT ![p] = "CreateRoute"]
            /\ UNCHANGED rout
       ELSE /\ rpc' = [rpc EXCEPT ![p] = "unlock"]
            /\ rout' = [rout EXCEPT ![p] = [route |-> "nil", err |-> "error"]]
    /\ UNCHANGED <<routeLock, rop, rargs, steps, rtrace>>
    /\ UNCHANGED notRouteVars

\* A mutant: an error that is not a duplicate is retried without counting the step.
CreateRouteReturnNoCount(p, ans) ==
    /\ rpc[p] = "CreateRoute"
    /\ rtrace' = [rtrace EXCEPT ![p] = Append(@, Event("CreateRoute", rargs[p], ans))]
    /\ CASE ans = "ok" ->
              /\ rpc' = [rpc EXCEPT ![p] = "unlock"]
              /\ rout' = [rout EXCEPT ![p] = [route |-> "created", err |-> "nil"]]
              /\ UNCHANGED steps
         [] ans = "dup" ->
              /\ rpc' = [rpc EXCEPT ![p] = "FindRoute"]
              /\ UNCHANGED <<rout, steps>>
         [] ans = "other" ->
              /\ rpc' = [rpc EXCEPT ![p] = "backoff"]
              /\ UNCHANGED <<rout, steps>>
    /\ UNCHANGED <<routeLock, rop, rargs>>
    /\ UNCHANGED notRouteVars

\* CreateRoute returns.  No error: the condition returns (true, nil).  A duplicate
\* error: FindRoute is called.  Any other error: the condition returns (false, nil),
\* and ExponentialBackoff breaks when Steps is 1, else sleeps, Step() taking one step.
CreateRouteReturn(p, ans) ==
    /\ rpc[p] = "CreateRoute"
    /\ rtrace' = [rtrace EXCEPT ![p] = Append(@, Event("CreateRoute", rargs[p], ans))]
    /\ CASE ans = "ok" ->
              /\ rpc' = [rpc EXCEPT ![p] = "unlock"]
              /\ rout' = [rout EXCEPT ![p] = [route |-> "created", err |-> "nil"]]
              /\ UNCHANGED steps
         [] ans = "dup" ->
              /\ rpc' = [rpc EXCEPT ![p] = "FindRoute"]
              /\ UNCHANGED <<rout, steps>>
         [] ans = "other" ->
              IF steps[p] = 1
              THEN /\ rpc' = [rpc EXCEPT ![p] = "unlock"]
                   /\ rout' = [rout EXCEPT ![p] = [route |-> "nil", err |-> "error"]]
                   /\ UNCHANGED steps
              ELSE /\ rpc' = [rpc EXCEPT ![p] = "backoff"]
                   /\ steps' = [steps EXCEPT ![p] = @ - 1]
                   /\ UNCHANGED rout
    /\ UNCHANGED <<routeLock, rop, rargs>>
    /\ UNCHANGED notRouteVars

\* A mutant: a lookup that finds nothing, or fails, is retried like any other error.
FindRouteReturnRetry(p, ans) ==
    /\ rpc[p] = "FindRoute"
    /\ rtrace' = [rtrace EXCEPT ![p] = Append(@, Event("FindRoute", rargs[p], ans))]
    /\ IF ans = "found"
       THEN /\ rpc' = [rpc EXCEPT ![p] = "unlock"]
            /\ rout' = [rout EXCEPT ![p] = [route |-> "found", err |-> "nil"]]
            /\ UNCHANGED steps
       ELSE IF steps[p] = 1
            THEN /\ rpc' = [rpc EXCEPT ![p] = "unlock"]
                 /\ rout' = [rout EXCEPT ![p] = [route |-> "nil", err |-> "error"]]
                 /\ UNCHANGED steps
            ELSE /\ rpc' = [rpc EXCEPT ![p] = "backoff"]
                 /\ steps' = [steps EXCEPT ![p] = @ - 1]
                 /\ UNCHANGED rout
    /\ UNCHANGED <<routeLock, rop, rargs>>
    /\ UNCHANGED notRouteVars

\* providerIns.FindRoute(ctx, table, providerID, cidr) returns.  A route and no
\* error: the condition returns (true, nil).  Otherwise it returns (false, innerErr),
\* which ends ExponentialBackoff with that error.
FindRouteReturn(p, ans) ==
    /\ rpc[p] = "FindRoute"
    /\ rtrace' = [rtrace EXCEPT ![p] = Append(@, Event("FindRoute", rargs[p], ans))]
    /\ rpc' = [rpc EXCEPT ![p] = "unlock"]
    /\ rout' = [rout EXCEPT ![p] =
                   IF ans = "found" THEN [route |-> "found", err |-> "nil"]
                                    ELSE [route |-> "nil", err |-> "error"]]
    /\ UNCHANGED <<routeLock, rop, rargs, steps>>
    /\ UNCHANGED notRouteVars

\* A mutant: the function returns an error of its cloud call without the
\* deferred Unlock.
PlainReturnLeaksOnError(p, ans) ==
    /\ rpc[p] \in {"DeleteRoute", "CreateRoutes", "DeleteRoutes"}
    /\ rtrace' = [rtrace EXCEPT ![p] = Append(@, Event(rpc[p], rargs[p], ans))]
    /\ rpc' = [rpc EXCEPT ![p] = IF ans = "ok" THEN "unlock" ELSE "done"]
    /\ rout' = [rout EXCEPT ![p] =
                   IF ans = "ok" THEN [route |-> "nil", err |-> "nil"]
                                 ELSE [route |-> "nil", err |-> "error"]]
    /\ UNCHANGED <<routeLock, rop, rargs, steps>>
    /\ UNCHANGED notRouteVars

\* DeleteRoute, CreateRoutes or DeleteRoutes returns; its result is the function's.
PlainReturn(p, ans) ==
    /\ rpc[p] \in {"DeleteRoute", "CreateRoutes", "DeleteRoutes"}
    /\ rtrace' = [rtrace EXCEPT ![p] = Append(@, Event(rpc[p], rargs[p], ans))]
    /\ rpc' = [rpc EXCEPT ![p] = "unlock"]
    /\ rout' = [rout EXCEPT ![p] =
                   IF ans = "ok" THEN [route |-> "nil", err |-> "nil"]
                                 ELSE [route |-> "nil", err |-> "error"]]
    /\ UNCHANGED <<routeLock, rop, rargs, steps>>
    /\ UNCHANGED notRouteVars

\* defer routeLock.Unlock(), and the function returns.
Unlock(p) ==
    /\ rpc[p] = "unlock"
    /\ routeLock' = 0
    /\ rpc' = [rpc EXCEPT ![p] = "done"]
    /\ UNCHANGED <<rop, rargs, steps, rtrace, rout>>
    /\ UNCHANGED notRouteVars

RouteIdle ==
    /\ routeLock = 0
    /\ rpc = [p \in Callers |-> "idle"]
    /\ rop = [p \in Callers |-> "none"]
    /\ rargs = [p \in Callers |-> NoArgs]
    /\ steps = [p \in Callers |-> 0]
    /\ rtrace = [p \in Callers |-> <<>>]
    /\ rout = [p \in Callers |-> NoOut]

CallerStep(p) ==
    \/ \E o \in RouteOps, t \in Tables, i \in ProviderIDs, c \in CallCidrs :
          Call(p, o, [table |-> t, providerID |-> i, cidr |-> c])
    \/ Lock(p)
    \/ BackoffAttempt(p)
    \/ \E ans \in CreateAnswers : CreateRouteReturn(p, ans)
    \/ \E ans \in FindAnswers : FindRouteReturn(p, ans)
    \/ \E ans \in PlainAnswers : PlainReturn(p, ans)
    \/ Unlock(p)

RouteNext == \E p \in Callers : CallerStep(p)

-----------------------------------------------------------------------------
(***************************************************************************)
(* Package route: containsRoute and conflictWithNodes.                     *)
(* A CIDR string is [kind, ip, bits]: kind "cidr" is the text "ip/bits",   *)
(* where ip may have host bits set ("10.1.0.5/16"); kind "bad" is a text   *)
(* net.ParseCIDR rejects; kind "empty" is "".  A *net.IPNet is             *)
(* [nil, IP, Bits] with IP the masked address, as ParseCIDR builds it.     *)
(***************************************************************************)

RECURSIVE Pow2(_)
Pow2(n) == IF n = 0 THEN 1 ELSE 2 * Pow2(n - 1)

Addrs == 0..(Pow2(AddrBits) - 1)
PrefixLens == 0..AddrBits

CidrText(a, n) == [kind |-> "cidr", ip |-> a, bits |-> n]
BadText == [kind |-> "bad", ip |-> 0, bits |-> 0]
EmptyText == [kind |-> "empty", ip |-> 0, bits |-> 0]

NilNet == [nil |-> TRUE, IP |-> 0, Bits |-> 0]

\* ip & mask, for the mask of n leading ones.
MaskIP(a, n) == a - (a % Pow2(AddrBits - n))

\* net.ParseCIDR: the network is the address masked by the prefix length.
ParseCIDR(s) ==
    IF s.kind = "cidr"
    THEN [err |-> FALSE, net |-> [nil |-> FALSE, IP |-> MaskIP(s.ip, s.bits), Bits |-> s.bits]]
    ELSE [err |-> TRUE, net |-> NilNet]

\* (*net.IPNet).String()
IPNetString(n) == CidrText(n.IP, n.Bits)

\* (*net.IPNet).Contains(ip)
IPNetContains(n, a) == MaskIP(a, n.Bits) = n.IP

\* lastIP[i] = cidr.IP[i] | ^cidr.Mask[i]: the host bits of a masked address are 0,
\* so the bitwise or adds them.
LastIP(n) == n.IP + (Pow2(AddrBits - n.Bits) - 1)

Result3(ce, rc, e) == [containsEqual |-> ce, realContains |-> rc, err |-> e]

\* A mutant: only the first address of the inside network is tested.
containsRouteFirstOnly(outside, insideRoute) ==
    IF outside.nil THEN Result3(TRUE, TRUE, FALSE)
    ELSE LET parsed == ParseCIDR(insideRoute)
             cidr == parsed.net
         IN IF parsed.err THEN Result3(FALSE, FALSE, TRUE)
            ELSE IF IPNetString(outside) = insideRoute THEN Result3(TRUE, FALSE, FALSE)
            ELSE IF ~IPNetContains(outside, cidr.IP)
                 THEN Result3(FALSE, FALSE, FALSE)
                 ELSE Result3(TRUE, TRUE, FALSE)

\* containsRoute(outside, insideRoute) (containsEqual, realContains, err)
containsRoute(outside, insideRoute) ==
    IF outside.nil THEN Result3(TRUE, TRUE, FALSE)
    ELSE LET parsed == ParseCIDR(insideRoute)
             cidr == parsed.net
         IN IF parsed.err THEN Result3(FALSE, FALSE, TRUE)
            ELSE IF IPNetString(outside) = insideRoute THEN Result3(TRUE, FALSE, FALSE)
            ELSE IF ~IPNetContains(outside, cidr.IP) \/ ~IPNetContains(outside, LastIP(cidr))
                 THEN Result3(FALSE, FALSE, FALSE)
                 ELSE Result3(TRUE, TRUE, FALSE)

\* getIPv4RouteForNode(node) (ipv4Cidr, ipv4RouteCidr, err): the node's pod CIDR,
\* parsed; (nil, "", nil) for a node without one.
getIPv4RouteForNode(node) ==
    IF node.PodCIDR.kind = "empty"
    THEN [net |-> NilNet, cidr |-> EmptyText, err |-> FALSE]
    ELSE LET parsed == ParseCIDR(node.PodCIDR)
         IN IF parsed.err
            THEN [net |-> NilNet, cidr |-> EmptyText, err |-> TRUE]
            ELSE [net |-> parsed.net, cidr |-> IPNetString(parsed.net), err |-> FALSE]

\* One iteration of the loop of conflictWithNodes: whether this node makes it return true.
NodeConflicts(route, node) ==
    LET r == getIPv4RouteForNode(node)
        c == containsRoute(r.net, route.DestinationCIDR)
    IN /\ ~r.err
       /\ ~r.net.nil
       /\ ~c.err
       /\ (c.realContains \/ (c.containsEqual /\ route.ProviderId # node.ProviderID))

\* conflictWithNodes(route, nodes): true at the first node in conflict, else false.
conflictWithNodes(route, nodeList) ==
    \E i \in 1..Len(nodeList) : NodeConflicts(route, nodeList[i])

\* The inputs.
Nets == {[nil |-> FALSE, IP |-> MaskIP(a, n), Bits |-> n] : a \in Addrs, n \in PrefixLens}
CidrTexts == {CidrText(a, n) : a \in Addrs, n \in PrefixLens}
RouteTexts == CidrTexts \cup {BadText, EmptyText}
\* A node's pod CIDR is written by the cluster: a network, nothing, or a bad text.
PodCidrTexts == {IPNetString(n) : n \in Nets} \cup {BadText, EmptyText}

Route(c, i) == [DestinationCIDR |-> c, ProviderId |-> i]
Node(i, c) == [ProviderID |-> i, PodCIDR |-> c]

FuncNodes == {Node(i, c) : i \in {"i-a", "i-b"}, c \in PodCidrTexts}
FuncRoutes == {Route(c, "i-a") : c \in RouteTexts}

RECURSIVE SeqsUpTo(_, _)
SeqsUpTo(S, n) ==
    IF n = 0 THEN {<<>>}
    ELSE LET shorter == SeqsUpTo(S, n - 1)
         IN shorter \cup {Append(q, x) : q \in {t \in shorter : Len(t) = n - 1}, x \in S}

NoResult == [done |-> FALSE, containsEqual |-> FALSE, realContains |-> FALSE,
             err |-> FALSE, conflict |-> FALSE]

FuncInit ==
    /\ fresult = NoResult
    /\ \/ \E o \in Nets \cup {NilNet}, s \in RouteTexts :
             fcall = [fn |-> "containsRoute", outside |-> o, insideRoute |-> s,
                      route |-> Route(EmptyText, ""), nodes |-> <<>>]
       \/ \E r \in FuncRoutes, ns \in SeqsUpTo(FuncNodes, MaxNodes) :
             fcall = [fn |-> "conflictWithNodes", outside |-> NilNet, insideRoute |-> EmptyText,
                      route |-> r, nodes |-> ns]

CallContainsRoute ==
    /\ fcall.fn = "containsRoute"
    /\ ~fresult.done
    /\ LET c == containsRoute(fcall.outside, fcall.insideRoute)
       IN fresult' = [done |-> TRUE, containsEqual |-> c.containsEqual,
                      realContains |-> c.realContains, err |-> c.err, conflict |-> FALSE]
    /\ UNCHANGED fcall
    /\ UNCHANGED notFuncVars

CallConflictWithNodes ==
    /\ fcall.fn = "conflictWithNodes"
    /\ ~fresult.done
    /\ fresult' = [NoResult EXCEPT !.done = TRUE,
                                   !.conflict = conflictWithNodes(fcall.route, fcall.nodes)]
    /\ UNCHANGED fcall
    /\ UNCHANGED notFuncVars

FuncIdle ==
    /\ fcall = [fn |-> "none", outside |-> NilNet, insideRoute |-> EmptyText,
                route |-> Route(EmptyText, ""), nodes |-> <<>>]
    /\ fresult = NoResult

FuncNext == CallContainsRoute \/ CallConflictWithNodes

-----------------------------------------------------------------------------
(***************************************************************************)
(* Package route: ReconcileRoute.syncTableRoutes.  A node is               *)
(* [ProviderID, PodCIDR, ExcludeLabel, ReadyUnknown, Deleting].             *)
(***************************************************************************)

SyncNode(i, c, x) ==
    [ProviderID |-> i, PodCIDR |-> c, ExcludeLabel |-> x, ReadyUnknown |-> FALSE,
     Deleting |-> FALSE]

\* needSyncRoute(node)
needSyncRoute(node) ==
    IF node.ExcludeLabel THEN FALSE
    ELSE IF node.ReadyUnknown THEN FALSE
    ELSE IF node.Deleting THEN FALSE
    ELSE TRUE

\* The *net.IPNet syncTableRoutes parses from the configured cluster CIDR: nil
\* when none is configured.
ClusterNet == IF clusterCIDR.kind = "empty" THEN NilNet ELSE ParseCIDR(clusterCIDR).net

\* A mutant: every route is taken as in the cluster CIDR.
InScopeAll(route) == TRUE

\* The first loop's tests: the route is in the cluster CIDR and conflicts with a node.
InScope(route) ==
    LET c == containsRoute(ClusterNet, route.DestinationCIDR)
    IN ~c.err /\ c.containsEqual

IsConflictRoute(route) == InScope(route) /\ conflictWithNodes(route, nodes)

\* findRoute(ctx, table, pvid, cidr, cachedRoutes, providerIns): the first cached
\* route that matches, (nil, nil) when the cache is not empty and none matches, and
\* the cloud's answer when the cache is empty.  "found" tells whether a route came back.
findRoute(pvid, cidr, cachedRoutes, ans) ==
    IF pvid = "" /\ cidr.kind = "empty" THEN [found |-> FALSE, err |-> TRUE]
    ELSE IF Len(cachedRoutes) # 0
    THEN [found |-> \E k \in 1..Len(cachedRoutes) :
                       IF pvid # "" /\ cidr.kind # "empty"
                       THEN cachedRoutes[k].DestinationCIDR = cidr /\ cachedRoutes[k].ProviderId = pvid
                       ELSE IF pvid # "" THEN cachedRoutes[k].ProviderId = pvid
                       ELSE cachedRoutes[k].DestinationCIDR = cidr,
          err |-> FALSE]
    ELSE [found |-> ans = "found", err |-> ans = "err"]

SyncEvent(op, r, ok) == [op |-> op, route |-> r, ok |-> ok]

\* r.cloud.ListRoute and the parse of the cluster CIDR.
SyncStart(ans) ==
    /\ spc = "start"
    /\ IF ans = "err" THEN /\ spc' = "done" /\ sret' = "error" /\ UNCHANGED routes
       ELSE IF clusterCIDR.kind # "empty" /\ ParseCIDR(clusterCIDR).err
       THEN /\ spc' = "done" /\ sret' = "error" /\ UNCHANGED routes
       ELSE /\ spc' = "routes" /\ UNCHANGED <<sret, routes>>
    /\ UNCHANGED <<clusterCIDR, nodes, table, ri, ni, slog>>
    /\ UNCHANGED notSyncVars

\* A mutant: a conflicting route is reported and left in the table.
SyncRouteStepNoDelete(ans) ==
    /\ spc = "routes"
    /\ IF ri > Len(routes)
       THEN spc' = "nodes" /\ UNCHANGED ri
       ELSE spc' = spc /\ ri' = ri + 1
    /\ UNCHANGED <<table, slog>>
    /\ ans = "ok"
    /\ UNCHANGED <<clusterCIDR, nodes, routes, ni, sret>>
    /\ UNCHANGED notSyncVars

\* One iteration of "for _, route := range routes": a route in the cluster CIDR
\* that conflicts with a node is deleted by deleteRouteForInstance, under the route
\* lock; a failed deletion is logged and the loop goes on.
SyncRouteStep(ans) ==
    /\ spc = "routes"
    /\ IF ri > Len(routes)
       THEN /\ spc' = "nodes"
            /\ ans = "ok"
            /\ UNCHANGED <<ri, table, slog>>
       ELSE /\ spc' = spc
            /\ ri' = ri + 1
            /\ IF IsConflictRoute(routes[ri])
               THEN /\ routeLock = 0
                    /\ slog' = Append(slog, SyncEvent("DeleteRoute", routes[ri], ans = "ok"))
                    /\ table' = IF ans = "ok" THEN table \ {routes[ri]} ELSE table
               ELSE /\ ans = "ok"
                    /\ UNCHANGED <<table, slog>>
    /\ UNCHANGED <<clusterCIDR, nodes, routes, ni, sret>>
    /\ UNCHANGED notSyncVars

\* addRouteForNode(ctx, table, ipv4RouteCidr, prvdId, node, routes): the route is
\* looked up with findRoute in the listed routes (in the cloud when the list is
\* empty) and created with createRouteForInstance when it is not found.
addRouteForNode(cidr, pvid, fans, ans) ==
    LET f == findRoute(pvid, cidr, routes, fans)
    IN /\ (Len(routes) # 0 \/ (pvid = "" /\ cidr.kind = "empty")) => fans = "none"
       /\ IF f.err \/ f.found
          THEN /\ ans = "ok"
               /\ UNCHANGED <<table, slog>>
          ELSE /\ routeLock = 0
               /\ slog' = Append(slog, SyncEvent("CreateRoute", Route(cidr, pvid), ans = "ok"))
               /\ table' = IF ans = "ok" THEN table \cup {Route(cidr, pvid)} ELSE table

\* One iteration of "for _, node := range nodes.Items".
SyncNodeStep(fans, ans) ==
    /\ spc = "nodes"
    /\ IF ni > Len(nodes)
       THEN /\ spc' = "done"
            /\ sret' = "nil"
            /\ ans = "ok" /\ fans = "none"
            /\ UNCHANGED <<ni, table, slog>>
       ELSE /\ UNCHANGED <<spc, sret>>
            /\ ni' = ni + 1
            /\ LET node == nodes[ni]
                   r == getIPv4RouteForNode(node)
               IN IF \/ ~needSyncRoute(node)
                     \/ node.ProviderID = ""
                     \/ r.err
                     \/ r.cidr.kind = "empty"
                  THEN /\ ans = "ok" /\ fans = "none"
                       /\ UNCHANGED <<table, slog>>
                  ELSE addRouteForNode(r.cidr, node.ProviderID, fans, ans)
    /\ UNCHANGED <<clusterCIDR, nodes, routes, ri>>
    /\ UNCHANGED notSyncVars

\* The inputs: the halves of the address space, a block of the first half, the
\* whole space, and texts that are no CIDR.
HalfA == CidrText(0, 1)
HalfB == CidrText(Pow2(AddrBits - 1), 1)
BlockA1 == CidrText(0, AddrBits)
WholeSpace == CidrText(0, 0)

SyncProviderIDs == <<"i-a", "i-b", "i-c", "i-d">>
SyncNodeChoices(k) ==
    {SyncNode(SyncProviderIDs[k], c, FALSE) : c \in {HalfA, BlockA1, HalfB, EmptyText}}
        \cup {SyncNode(SyncProviderIDs[k], HalfA, TRUE)}
SyncRouteChoices ==
    {Route(c, i) : c \in {HalfA, BlockA1}, i \in {"i-a", "i-b"}}
        \cup {Route(HalfB, "i-b"), Route(BadText, "i-a")}

RECURSIVE NodeLists(_)
NodeLists(n) ==
    IF n = 0 THEN {<<>>}
    ELSE LET shorter == NodeLists(n - 1)
         IN shorter \cup {Append(q, x) : q \in {t \in shorter : Len(t) = n - 1},
                                         x \in SyncNodeChoices(n)}

NoDuplicates(q) == \A i, j \in 1..Len(q) : i # j => q[i] # q[j]
Range(q) == {q[i] : i \in 1..Len(q)}

SyncInit ==
    /\ clusterCIDR \in {EmptyText, WholeSpace, HalfA, BadText}
    /\ nodes \in NodeLists(MaxNodes)
    /\ routes \in {q \in SeqsUpTo(SyncRouteChoices, MaxRoutes) : NoDuplicates(q)}
    /\ table = Range(routes)
    /\ spc = "start"
    /\ ri = 1
    /\ ni = 1
    /\ slog = <<>>
    /\ sret = "unset"

SyncIdle ==
    /\ clusterCIDR = EmptyText
    /\ nodes = <<>>
    /\ routes = <<>>
    /\ table = {}
    /\ spc = "idle"
    /\ ri = 1
    /\ ni = 1
    /\ slog = <<>>
    /\ sret = "unset"

SyncNext ==
    \/ \E ans \in PlainAnswers : SyncStart(ans)
    \/ \E ans \in PlainAnswers : SyncRouteStep(ans)
    \/ \E fans \in FindAnswers, ans \in PlainAnswers : SyncNodeStep(fans, ans)

-----------------------------------------------------------------------------
(***************************************************************************)
(* Package route: ReconcileRoute.batchAddRoutes and batchDeleteRoutes.     *)
(* The routes of a batch belong to the nodes 1..Len(broutes); the cloud    *)
(* answers a batch with an error or with one status for each route.        *)
(***************************************************************************)

\* The most routes a batch holds.
MaxBatch == 2

\* prvd.RouteUpdateStatus values for the route of node k: a success, and a
\* failure with each provider code (the three codes the functions look for,
\* another code, and no code).
StatusChoices(k) ==
    {[Node |-> k, Failed |-> FALSE, FailedCode |-> ""]}
        \cup {[Node |-> k, Failed |-> TRUE, FailedCode |-> c] :
                c \in {"VPC_ROUTE_ENTRY_CIDR_BLOCK_DUPLICATE", "VPC_ROUTE_ENTRY_STATUS_ERROR",
                       "VPC_ROUTER_ENTRY_NOT_EXIST", "QuotaExceeded.Route", ""}}

StatusLists(n) ==
    {st \in SeqsUpTo(UNION {StatusChoices(k) : k \in 1..n}, n) :
        Len(st) = n /\ \A k \in 1..n : st[k].Node = k}

\* What was done for the status s: the node was requeued or its rate limiter
\* forgotten, updateNetworkingCondition was called (and answered), and
\* whether the node is in the cache afterwards.
Handled(s, requeued, forgotten, condition, cached) ==
    [status |-> s, requeued |-> requeued, forgotten |-> forgotten,
     condition |-> condition, cached |-> cached]

\* The functions up to the loop: nothing to do for no routes; else
\* LockedCreateRoutes / LockedDeleteRoutes, under the route lock.
BatchCall(ans, st) ==
    /\ bpc = "start"
    /\ IF Len(broutes) = 0
       THEN /\ ans = "ok" /\ st = <<>>
            /\ bret' = "nil" /\ bpc' = "done"
            /\ UNCHANGED bstatuses
       ELSE /\ routeLock = 0
            /\ IF ans = "err"
               THEN /\ st = <<>>
                    /\ bret' = "error" /\ bpc' = "done"
                    /\ UNCHANGED bstatuses
               ELSE /\ st \in StatusLists(Len(broutes))
                    /\ bstatuses' = st
                    /\ bpc' = "statuses"
                    /\ UNCHANGED bret
    /\ UNCHANGED <<bop, broutes, bi, nodeCache, blog>>
    /\ UNCHANGED notBatchVars

\* A mutant: batchAddRoutes ignores no provider code.
BatchAddStatusNoIgnore(cans) ==
    /\ bop = "batchAddRoutes" /\ bpc = "statuses" /\ bi <= Len(bstatuses)
    /\ LET s == bstatuses[bi]
       IN IF ~s.Failed
          THEN IF cans = "err"
               THEN /\ blog' = Append(blog, Handled(s, FALSE, FALSE, "err", s.Node \in nodeCache))
                    /\ UNCHANGED nodeCache
               ELSE /\ nodeCache' = nodeCache \cup {s.Node}
                    /\ blog' = Append(blog, Handled(s, FALSE, TRUE, "ok", TRUE))
          ELSE /\ cans = "ok"
               /\ blog' = Append(blog, Handled(s, TRUE, FALSE, "none", s.Node \in nodeCache))
               /\ UNCHANGED nodeCache
    /\ bi' = bi + 1
    /\ UNCHANGED <<bop, broutes, bstatuses, bpc, bret>>
    /\ UNCHANGED notBatchVars

\* batchAddRoutes, one iteration of "for _, s := range statuses": the two
\* ignored codes clear s.Failed; a status that has not failed sets the network
\* condition of the node, caches the route and forgets the rate limiter (a
\* failure of updateNetworkingCondition is logged); a failed one requeues
\* the node.
BatchAddStatus(cans) ==
    /\ bop = "batchAddRoutes" /\ bpc = "statuses" /\ bi <= Len(bstatuses)
    /\ LET s == bstatuses[bi]
           failed == IF s.FailedCode = "VPC_ROUTE_ENTRY_CIDR_BLOCK_DUPLICATE" THEN FALSE
                     ELSE IF s.FailedCode = "VPC_ROUTE_ENTRY_STATUS_ERROR" THEN FALSE
                     ELSE s.Failed
       IN IF ~failed
          THEN IF cans = "err"
               THEN /\ blog' = Append(blog, Handled(s, FALSE, FALSE, "err", s.Node \in nodeCache))
                    /\ UNCHANGED nodeCache
               ELSE /\ nodeCache' = nodeCache \cup {s.Node}
                    /\ blog' = Append(blog, Handled(s, FALSE, TRUE, "ok", TRUE))
          ELSE /\ cans = "ok"
               /\ blog' = Append(blog, Handled(s, TRUE, FALSE, "none", s.Node \in nodeCache))
               /\ UNCHANGED nodeCache
    /\ bi' = bi + 1
    /\ UNCHANGED <<bop, broutes, bstatuses, bpc, bret>>
    /\ UNCHANGED notBatchVars

\* batchDeleteRoutes, one iteration: the ignored code clears s.Failed; a
\* status that has not failed removes the node from the cache and forgets the
\* rate limiter; a failed one requeues the node.
BatchDeleteStatus ==
    /\ bop = "batchDeleteRoutes" /\ bpc = "statuses" /\ bi <= Len(bstatuses)
    /\ LET s == bstatuses[bi]
           failed == IF s.FailedCode = "VPC_ROUTER_ENTRY_NOT_EXIST" THEN FALSE ELSE s.Failed
       IN IF ~failed
          THEN /\ nodeCache' = nodeCache \ {s.Node}
               /\ blog' = Append(blog, Handled(s, FALSE, TRUE, "none", FALSE))
          ELSE /\ blog' = Append(blog, Handled(s, TRUE, FALSE, "none", s.Node \in nodeCache))
               /\ UNCHANGED nodeCache
    /\ bi' = bi + 1
    /\ UNCHANGED <<bop, broutes, bstatuses, bpc, bret>>
    /\ UNCHANGED notBatchVars

\* The loop is over: return nil.
BatchReturn ==
    /\ bpc = "statuses" /\ bi > Len(bstatuses)
    /\ bret' = "nil"
    /\ bpc' = "done"
    /\ UNCHANGED <<bop, broutes, bstatuses, bi, nodeCache, blog>>
    /\ UNCHANGED notBatchVars

BatchInit ==
    /\ bop \in {"batchAddRoutes", "batchDeleteRoutes"}
    /\ broutes \in {[k \in 1..n |-> k] : n \in 0..MaxBatch}
    /\ nodeCache \in {{}, 1..MaxBatch}
    /\ bstatuses = <<>>
    /\ bpc = "start"
    /\ bi = 1
    /\ blog = <<>>
    /\ bret = "unset"

BatchIdle ==
    /\ bop = "batchAddRoutes"
    /\ broutes = <<>>
    /\ nodeCache = {}
    /\ bstatuses = <<>>
    /\ bpc = "idle"
    /\ bi = 1
    /\ blog = <<>>
    /\ bret = "unset"

BatchNext ==
    \/ \E ans \in PlainAnswers, st \in StatusLists(Len(broutes)) \cup {<<>>} : BatchCall(ans, st)
    \/ \E cans \in PlainAnswers : BatchAddStatus(cans)
    \/ BatchDeleteStatus
    \/ BatchReturn

-----------------------------------------------------------------------------
(***************************************************************************)
(* ModelApplier.Apply of packages nlbv2 and clbv1.  One call reconciles    *)
(* the desired model `local` with the cloud: the load-balancer attribute   *)
(* phase, the backend-group phase, the listener phase and the cleanup.     *)
(* The managers (nlbMgr, slbMgr, sgMgr, vGroupMgr, lisMgr) are the          *)
(* environment: a call of a manager succeeds or fails, and a successful    *)
(* call has its effect on the cloud.                                       *)
(***************************************************************************)

\* helper.TAGKEY and util.ClusterTagKey, the tag keys of a load balancer
\* created by the controller; UserTag is any other key.
TAGKEY == "kubernetes.do.not.delete"
ClusterTagKey == "ack.aliyun.com"
UserTag == "team"

\* The identity and the address (CLB: Address, NLB: DNSName) the cloud gives to
\* the load balancer, and another address.
LbId == "lb-1"
LbAddr == "addr-1"
OtherAddr == "addr-2"

UpdateAnswers == {"ok", "err", "aggregate"}

Ingress(ip, hostname) == [IP |-> ip, Hostname |-> hostname]

NoLB == [exists |-> FALSE, id |-> "", addr |-> "", tags |-> {}, protections |-> FALSE]
EmptyRemote == [id |-> "", addr |-> "", tags |-> {}, groups |-> <<>>, listeners |-> <<>>]
Unreturned == [set |-> FALSE, remote |-> "nil", err |-> <<>>]

\* A cloud call of Apply: the phase that made it, the operation, its target and
\* whether it succeeded.
ApplyCall(phase, op, target, ok) == [phase |-> phase, op |-> op, target |-> target, ok |-> ok]

\* The cloud after the deletion of the load balancer: its listeners go with
\* it, and so do the server groups of a CLB.
WithoutLB(c) ==
    [lb |-> NoLB, listeners |-> <<>>,
     groups |-> IF applier = "clb" THEN <<>> ELSE c.groups]

\* serviceHashChanged || ctrlCfg.ControllerCFG.DryRun
RunsAttribute == req.hashChanged \/ req.dryRun

\* helper.IsServiceOwnIngress: the service status has an ingress entry.
IsServiceOwnIngress == Len(req.ingress) > 0

HasOwnershipTag(tags) == TAGKEY \in tags \/ ClusterTagKey \in tags

isNLBReusable(ingress, tags, dnsName) ==
    IF HasOwnershipTag(tags) THEN FALSE
    ELSE IF Len(ingress) > 0
         THEN \E i \in 1..Len(ingress) : ingress[i].Hostname = dnsName
         ELSE TRUE

isLoadBalancerReusable(externalIPType, ingress, tags, lbIp) ==
    IF HasOwnershipTag(tags) THEN FALSE
    ELSE IF externalIPType = "eip" THEN TRUE
    ELSE IF Len(ingress) > 0
         THEN \E i \in 1..Len(ingress) :
                \/ ingress[i].IP = lbIp
                \/ (ingress[i].Hostname # "" /\ ingress[i].IP = "")
         ELSE TRUE

Reusable(tags) ==
    IF applier = "nlb"
    THEN isNLBReusable(req.ingress, tags, remote.addr)
    ELSE isLoadBalancerReusable(req.externalIPType, req.ingress, tags, remote.addr)

\* A mutant: the listener phase runs before the backend-group phase.
PhaseAfterListenersFirst(phase, rid) ==
    CASE phase = "attr" -> IF applier = "clb" THEN "idCheck" ELSE "lisBuild"
      [] phase = "idCheck" -> "lisBuild"
      [] phase = "listeners" -> "sgBuild"
      [] OTHER -> "cleanup"

\* The order of Apply: where it goes on after the attribute phase (the CLB
\* applier first looks at the identity of the remote model), after that look,
\* after the backend-group phase and after the listener phase.
PhaseAfter(phase, rid) ==
    CASE phase = "attr" -> IF applier = "clb" THEN "idCheck" ELSE "sgBuild"
      [] phase = "idCheck" -> "sgBuild"
      [] phase = "groups" -> IF RunsAttribute
                             THEN IF applier = "clb" \/ rid # "" THEN "lisBuild" ELSE "noLB"
                             ELSE "cleanup"
      [] OTHER -> "cleanup"


\* Apply returns (remote, NewAggregate(errs ++ msg)), or (nil, err).
ReturnRemote(msgs) ==
    /\ aret' = [set |-> TRUE, remote |-> "remote", err |-> errs \o msgs]
    /\ apc' = "done"

ReturnNil(msg) ==
    /\ aret' = [set |-> TRUE, remote |-> "nil", err |-> <<msg>>]
    /\ apc' = "done"

\* Apply up to the attribute phase: the load balancer is read from the cloud.
ApplyStart(ans) ==
    /\ apc = "start"
    /\ calls' = Append(calls, ApplyCall("build", "BuildRemoteModel", "lb", ans = "ok"))
    /\ IF ans = "ok"
       THEN /\ remote' = [EmptyRemote EXCEPT !.id = cloud.lb.id, !.addr = cloud.lb.addr]
            /\ apc' = IF RunsAttribute THEN "attr" ELSE PhaseAfter("attr", remote.id)
            /\ aret' = aret
       ELSE /\ ReturnRemote(<<"get attribute from cloud">>)
            /\ remote' = remote
    /\ UNCHANGED <<applier, req, local, cloud, ai, plan, errs>>
    /\ UNCHANGED notApplyVars

\* A mutant: the reused load balancer of a service that is being deleted is
\* updated.
AttrSkipReusedUpdates ==
    /\ apc = "attr"
    /\ req.deleting /\ local.IsUserManaged
    /\ apc' = "attrUpdate"
    /\ UNCHANGED <<applier, req, local, remote, cloud, ai, plan, errs, calls, aret>>
    /\ UNCHANGED notApplyVars

\* applyLoadBalancerAttribute, the service is being deleted and the load
\* balancer is reused: nothing is done.
AttrSkipReused ==
    /\ apc = "attr"
    /\ req.deleting /\ local.IsUserManaged
    /\ apc' = PhaseAfter("attr", remote.id)
    /\ UNCHANGED <<applier, req, local, remote, cloud, ai, plan, errs, calls, aret>>
    /\ UNCHANGED notApplyVars

AttrSetProtectionsOff(ans) ==
    /\ apc = "attr"
    /\ req.deleting /\ ~local.IsUserManaged /\ local.PreserveOnDelete
    /\ calls' = Append(calls, ApplyCall("attr", "SetProtectionsOff", remote.id, ans = "ok"))
    /\ IF ans = "ok"
       THEN /\ cloud' = [cloud EXCEPT !.lb.protections = FALSE]
            /\ apc' = "attrCleanupTags"
            /\ aret' = aret
       ELSE /\ ReturnNil("set protections off")
            /\ cloud' = cloud
    /\ UNCHANGED <<applier, req, local, remote, ai, plan, errs>>
    /\ UNCHANGED notApplyVars

AttrCleanupLoadBalancerTags(ans) ==
    /\ apc = "attrCleanupTags"
    /\ calls' = Append(calls, ApplyCall("attr", "CleanupLoadBalancerTags", remote.id, ans = "ok"))
    /\ IF ans = "ok"
       THEN /\ cloud' = [cloud EXCEPT !.lb.tags = @ \ {TAGKEY, ClusterTagKey}]
            /\ remote' = [remote EXCEPT !.id = "", !.addr = ""]
            /\ apc' = PhaseAfter("attr", remote.id)
            /\ aret' = aret
       ELSE /\ ReturnNil("cleanup tags")
            /\ UNCHANGED <<cloud, remote>>
    /\ UNCHANGED <<applier, req, local, ai, plan, errs>>
    /\ UNCHANGED notApplyVars

\* A mutant: the load balancer is deleted whether or not it is preserved.
AttrDeletePreserved(ans) ==
    /\ apc = "attr"
    /\ req.deleting /\ ~local.IsUserManaged
    /\ calls' = Append(calls, ApplyCall("attr", "Delete", remote.id, ans = "ok"))
    /\ IF ans = "ok"
       THEN /\ cloud' = WithoutLB(cloud)
            /\ remote' = [remote EXCEPT !.id = "", !.addr = ""]
            /\ apc' = PhaseAfter("attr", remote.id)
            /\ aret' = aret
       ELSE /\ ReturnNil("delete lb")
            /\ UNCHANGED <<cloud, remote>>
    /\ UNCHANGED <<applier, req, local, ai, plan, errs>>
    /\ UNCHANGED notApplyVars

\* The service is being deleted and the load balancer is not preserved.
AttrDelete(ans) ==
    /\ apc = "attr"
    /\ req.deleting /\ ~local.IsUserManaged /\ ~local.PreserveOnDelete
    /\ calls' = Append(calls, ApplyCall("attr", "Delete", remote.id, ans = "ok"))
    /\ IF ans = "ok"
       THEN /\ cloud' = WithoutLB(cloud)
            /\ remote' = [remote EXCEPT !.id = "", !.addr = ""]
            /\ apc' = PhaseAfter("attr", remote.id)
            /\ aret' = aret
       ELSE /\ ReturnNil("delete lb")
            /\ UNCHANGED <<cloud, remote>>
    /\ UNCHANGED <<applier, req, local, ai, plan, errs>>
    /\ UNCHANGED notApplyVars

\* The service owns an ingress but the load balancer is not found.
AttrOwnIngress ==
    /\ apc = "attr"
    /\ ~req.deleting /\ remote.id = "" /\ IsServiceOwnIngress
    /\ ReturnNil("can not find loadbalancer, but it's defined in service")
    /\ UNCHANGED <<applier, req, local, remote, cloud, ai, plan, errs, calls>>
    /\ UNCHANGED notApplyVars

AttrCreate(ans) ==
    /\ apc = "attr"
    /\ ~req.deleting /\ remote.id = "" /\ ~IsServiceOwnIngress
    /\ calls' = Append(calls, ApplyCall("attr", "Create", "", ans = "ok"))
    /\ IF ans = "ok"
       THEN /\ cloud' = [cloud EXCEPT !.lb = [exists |-> TRUE, id |-> LbId, addr |-> LbAddr,
                                              tags |-> {TAGKEY}, protections |-> TRUE]]
            /\ local' = [local EXCEPT !.LoadBalancerId = LbId]
            /\ remote' = [remote EXCEPT !.id = LbId]
            /\ apc' = "attrFind"
            /\ aret' = aret
       ELSE /\ ReturnNil("create lb")
            /\ UNCHANGED <<cloud, local, remote>>
    /\ UNCHANGED <<applier, req, ai, plan, errs>>
    /\ UNCHANGED notApplyVars

\* The remote model is read again after the creation; the NLB applier then
\* updates a load balancer that has security groups or an IPv6 address type.
AttrFind(ans) ==
    /\ apc = "attrFind"
    /\ calls' = Append(calls, ApplyCall("attr", "Find", remote.id, ans = "ok"))
    /\ IF ans = "ok"
       THEN /\ remote' = [remote EXCEPT !.addr = cloud.lb.addr]
            /\ apc' = IF applier = "nlb" /\ local.NeedsUpdateAfterCreate
                      THEN "attrUpdate" ELSE PhaseAfter("attr", remote.id)
            /\ aret' = aret
       ELSE /\ ReturnNil("update remote model")
            /\ remote' = remote
    /\ UNCHANGED <<applier, req, local, cloud, ai, plan, errs>>
    /\ UNCHANGED notApplyVars

\* A mutant: a reused load balancer is updated without the reuse check.
AttrListTagsNoCheck(ans) ==
    /\ apc = "attr"
    /\ ~req.deleting /\ remote.id # ""
    /\ calls' = Append(calls, ApplyCall("attr", "ListTagResources", remote.id, ans = "ok"))
    /\ IF ans = "ok"
       THEN /\ remote' = [remote EXCEPT !.tags = cloud.lb.tags]
            /\ apc' = "attrUpdate"
            /\ aret' = aret
       ELSE /\ ReturnNil("list tags")
            /\ remote' = remote
    /\ UNCHANGED <<applier, req, local, cloud, ai, plan, errs>>
    /\ UNCHANGED notApplyVars

\* The tags of the observed load balancer are listed and a reused load
\* balancer is checked: no Update when it cannot be reused.
AttrListTags(ans) ==
    /\ apc = "attr"
    /\ ~req.deleting /\ remote.id # ""
    /\ calls' = Append(calls, ApplyCall("attr", "ListTagResources", remote.id, ans = "ok"))
    /\ IF ans = "ok"
       THEN /\ remote' = [remote EXCEPT !.tags = cloud.lb.tags]
            /\ IF ~req.deleting /\ local.IsUserManaged /\ ~Reusable(cloud.lb.tags)
               THEN ReturnNil("the loadbalancer can not be reused")
               ELSE apc' = "attrUpdate" /\ aret' = aret
       ELSE /\ ReturnNil("list tags")
            /\ remote' = remote
    /\ UNCHANGED <<applier, req, local, cloud, ai, plan, errs>>
    /\ UNCHANGED notApplyVars

\* Update returns the manager's error as it is: an Aggregate is collected and
\* Apply goes on, any other error ends Apply.
AttrUpdate(ans) ==
    /\ apc = "attrUpdate"
    /\ calls' = Append(calls, ApplyCall("attr", "Update", remote.id, ans = "ok"))
    /\ CASE ans = "ok" -> /\ apc' = PhaseAfter("attr", remote.id)
                          /\ UNCHANGED <<errs, aret>>
         [] ans = "aggregate" -> /\ errs' = Append(errs, "update attribute")
                                 /\ apc' = PhaseAfter("attr", remote.id)
                                 /\ aret' = aret
         [] OTHER -> /\ ReturnNil("update lb")
                     /\ errs' = errs
    /\ UNCHANGED <<applier, req, local, remote, cloud, ai, plan>>
    /\ UNCHANGED notApplyVars

\* A mutant: clbv1 Apply goes on without a load balancer.
IdCheckGoesOn ==
    /\ apc = "idCheck"
    /\ apc' = PhaseAfter("idCheck", remote.id) /\ aret' = aret
    /\ UNCHANGED <<applier, req, local, remote, cloud, ai, plan, errs, calls>>
    /\ UNCHANGED notApplyVars

\* clbv1 Apply: without a load balancer there is nothing more to do.
IdCheck ==
    /\ apc = "idCheck"
    /\ IF remote.id = ""
       THEN IF req.deleting
            THEN aret' = [set |-> TRUE, remote |-> "remote", err |-> <<>>] /\ apc' = "done"
            ELSE ReturnRemote(<<"can not find loadbalancer by tag">>)
       ELSE apc' = PhaseAfter("idCheck", remote.id) /\ aret' = aret
    /\ UNCHANGED <<applier, req, local, remote, cloud, ai, plan, errs, calls>>
    /\ UNCHANGED notApplyVars

-----------------------------------------------------------------------------
(* The backend-group phase *)

\* A server group (nlbmodel.ServerGroup, model.VServerGroup).  NamedKey is
\* "mine" when the group carries the key of this service and cluster, "other"
\* when it carries another key, "nil" when it carries none.
Group(id, name, type, um, key, servers) ==
    [ServerGroupId |-> id, ServerGroupName |-> name, ServerGroupType |-> type,
     IsUserManaged |-> um, NamedKey |-> key, Servers |-> servers]

Server(id, um) == [ServerId |-> id, IsUserManaged |-> um]

\* The identities the cloud gives to the groups it creates, by desired index.
NewGroupIds == <<"sg-n1", "sg-n2", "sg-n3">>

\* remote.ServerGroups of the NLB model holds pointers: an entry appended from
\* the desired model is the desired group itself.
Pointer(i) == [ptr |-> i]
Deref(loc, g) == IF DOMAIN g = {"ptr"} THEN loc.groups[g.ptr] ELSE g

NoPlan == [actions |-> <<>>, updated |-> {}, errs |-> <<>>]

\* A mutant: a desired group matches by identity only.
MatchesGroupByIdOnly(l, rv) ==
    l.ServerGroupId # "" /\ l.ServerGroupId = rv.ServerGroupId

\* The first observed group the desired group l matches: by identity when l
\* has one, by name otherwise; 0 when there is none.
MatchesGroup(l, rv) ==
    \/ l.ServerGroupId # "" /\ l.ServerGroupId = rv.ServerGroupId
    \/ l.ServerGroupId = "" /\ l.ServerGroupName = rv.ServerGroupName

MatchIndex(l) ==
    LET hits == {k \in 1..Len(remote.groups) : MatchesGroup(l, Deref(local, remote.groups[k]))}
    IN IF hits = {} THEN 0 ELSE CHOOSE k \in hits : \A j \in hits : k <= j

\* Apply between the attribute phase and the backend-group phase: the groups
\* are read from the cloud.
GroupBuildRemoteModel(ans) ==
    /\ apc = "sgBuild"
    /\ calls' = Append(calls, ApplyCall("build", "BuildRemoteModel", "groups", ans = "ok"))
    /\ IF ans = "ok"
       THEN /\ remote' = [remote EXCEPT !.groups = cloud.groups]
            /\ apc' = IF applier = "nlb" THEN "vgPlan" ELSE "vgLoop"
            /\ ai' = 1
            /\ plan' = NoPlan
            /\ aret' = aret
       ELSE /\ ReturnRemote(<<"get server group from remote">>)
            /\ UNCHANGED <<remote, ai, plan>>
    /\ UNCHANGED <<applier, req, local, cloud, errs>>
    /\ UNCHANGED notApplyVars

sgKey(l) == IF l.ServerGroupId # "" THEN <<"id", l.ServerGroupId>>
            ELSE <<"name", l.ServerGroupName>>

\* A mutant: a matched group is updated whatever its type.
NLBPlanGroupIgnoresType ==
    /\ applier = "nlb" /\ apc = "vgPlan" /\ ai <= Len(local.groups)
    /\ LET l == local.groups[ai]
           key == sgKey(l)
           k == MatchIndex(l)
           found == k # 0
           old == IF found THEN Deref(local, remote.groups[k]) ELSE l
           byName == found /\ l.ServerGroupId = ""
           l2 == IF byName THEN [l EXCEPT !.ServerGroupId = old.ServerGroupId] ELSE l
           typeChanged == FALSE
       IN /\ local' = [local EXCEPT !.groups[ai] = l2]
          /\ IF key \in plan.updated
             THEN /\ ai' = ai + 1
                  /\ UNCHANGED <<plan, remote, apc, errs, aret>>
             ELSE IF typeChanged /\ l2.IsUserManaged
             THEN /\ errs' = Append(errs, "reconcile backends")
                  /\ aret' = [set |-> TRUE, remote |-> "remote", err |-> errs']
                  /\ apc' = "done"
                  /\ UNCHANGED <<plan, remote, ai>>
             ELSE IF found /\ ~typeChanged
             THEN /\ plan' = [plan EXCEPT
                        !.actions = Append(@, [Action |-> "Update", Local |-> ai, Remote |-> old]),
                        !.updated = @ \cup {key}]
                  /\ ai' = ai + 1
                  /\ UNCHANGED <<remote, apc, errs, aret>>
             ELSE /\ plan' = [plan EXCEPT
                        !.actions = Append(@, [Action |-> "CreateAndAddBackendServers",
                                               Local |-> ai, Remote |-> l2]),
                        !.updated = @ \cup {key}]
                  /\ remote' = [remote EXCEPT !.groups = Append(@, Pointer(ai))]
                  /\ ai' = ai + 1
                  /\ UNCHANGED <<apc, errs, aret>>
    /\ UNCHANGED <<applier, req, cloud, calls>>
    /\ UNCHANGED notApplyVars

\* nlbv2 applyVGroups, one desired group: the action for it is planned.
NLBPlanGroup ==
    /\ applier = "nlb" /\ apc = "vgPlan" /\ ai <= Len(local.groups)
    /\ LET l == local.groups[ai]
           key == sgKey(l)
           k == MatchIndex(l)
           found == k # 0
           old == IF found THEN Deref(local, remote.groups[k]) ELSE l
           byName == found /\ l.ServerGroupId = ""
           l2 == IF byName THEN [l EXCEPT !.ServerGroupId = old.ServerGroupId] ELSE l
           typeChanged == found /\ l2.ServerGroupType # ""
                                /\ l2.ServerGroupType # old.ServerGroupType
       IN /\ local' = [local EXCEPT !.groups[ai] = l2]
          /\ IF key \in plan.updated
             THEN /\ ai' = ai + 1
                  /\ UNCHANGED <<plan, remote, apc, errs, aret>>
             ELSE IF typeChanged /\ l2.IsUserManaged
             THEN /\ errs' = Append(errs, "reconcile backends")
                  /\ aret' = [set |-> TRUE, remote |-> "remote", err |-> errs']
                  /\ apc' = "done"
                  /\ UNCHANGED <<plan, remote, ai>>
             ELSE IF found /\ ~typeChanged
             THEN /\ plan' = [plan EXCEPT
                        !.actions = Append(@, [Action |-> "Update", Local |-> ai, Remote |-> old]),
                        !.updated = @ \cup {key}]
                  /\ ai' = ai + 1
                  /\ UNCHANGED <<remote, apc, errs, aret>>
             ELSE /\ plan' = [plan EXCEPT
                        !.actions = Append(@, [Action |-> "CreateAndAddBackendServers",
                                               Local |-> ai, Remote |-> l2]),
                        !.updated = @ \cup {key}]
                  /\ remote' = [remote EXCEPT !.groups = Append(@, Pointer(ai))]
                  /\ ai' = ai + 1
                  /\ UNCHANGED <<apc, errs, aret>>
    /\ UNCHANGED <<applier, req, cloud, calls>>
    /\ UNCHANGED notApplyVars

NLBPlanGroupsEnd ==
    /\ applier = "nlb" /\ apc = "vgPlan" /\ ai > Len(local.groups)
    /\ apc' = "vgExec"
    /\ UNCHANGED <<applier, req, local, remote, cloud, ai, plan, errs, calls, aret>>
    /\ UNCHANGED notApplyVars

RemoveAt(q, k) == SubSeq(q, 1, k - 1) \o SubSeq(q, k + 1, Len(q))

\* sgMgr.ParallelUpdateServerGroups: the planned actions run in parallel, here
\* one at a time in any order; a created group gets its identity.
ParallelUpdateServerGroup(k, ans) ==
    /\ applier = "nlb" /\ apc = "vgExec"
    /\ k \in 1..Len(plan.actions)
    /\ LET a == plan.actions[k]
           l == local.groups[a.Local]
           id == NewGroupIds[a.Local]
       IN /\ calls' = Append(calls, ApplyCall("vgroup",
                         IF a.Action = "Update" THEN "UpdateServerGroup" ELSE "CreateServerGroup",
                         IF a.Action = "Update" THEN l.ServerGroupId ELSE l.ServerGroupName,
                         ans = "ok"))
          /\ plan' = [plan EXCEPT !.actions = RemoveAt(@, k),
                                  !.errs = IF ans = "ok" THEN @
                                           ELSE Append(@, <<a.Action, l.ServerGroupName>>)]
          /\ IF a.Action # "Update" /\ ans = "ok"
             THEN /\ local' = [local EXCEPT !.groups[a.Local].ServerGroupId = id]
                  /\ cloud' = [cloud EXCEPT !.groups =
                                   Append(@, [l EXCEPT !.ServerGroupId = id, !.NamedKey = "mine"])]
             ELSE UNCHANGED <<local, cloud>>
    /\ UNCHANGED <<applier, req, remote, apc, ai, errs, aret>>
    /\ UNCHANGED notApplyVars


\* A mutant: the errors of applyVGroups are collected and Apply goes on.
GroupsDoneGoesOn ==
    /\ \/ applier = "nlb" /\ apc = "vgExec" /\ plan.actions = <<>>
       \/ applier = "clb" /\ apc = "vgLoop" /\ ai > Len(local.groups)
    /\ errs' = IF plan.errs # <<>> THEN Append(errs, "reconcile backends") ELSE errs
    /\ apc' = PhaseAfter("groups", remote.id)
    /\ ai' = 1
    /\ plan' = NoPlan
    /\ UNCHANGED <<applier, req, local, remote, cloud, calls, aret>>
    /\ UNCHANGED notApplyVars

\* applyVGroups returns: its errors end Apply.  The error Apply returns wraps
\* the aggregate of the errors of the phase, which plan.errs keeps: one
\* entry for each failed action, with the group it was for.
GroupsDone ==
    /\ \/ applier = "nlb" /\ apc = "vgExec" /\ plan.actions = <<>>
       \/ applier = "clb" /\ apc = "vgLoop" /\ ai > Len(local.groups)
    /\ IF plan.errs # <<>>
       THEN /\ errs' = Append(errs, "reconcile backends")
            /\ aret' = [set |-> TRUE, remote |-> "remote", err |-> errs']
            /\ apc' = "done"
            /\ ai' = ai
            /\ plan' = plan
       ELSE /\ apc' = PhaseAfter("groups", remote.id)
            /\ ai' = 1
            /\ plan' = NoPlan
            /\ UNCHANGED <<errs, aret>>
    /\ UNCHANGED <<applier, req, local, remote, cloud, calls>>
    /\ UNCHANGED notApplyVars

\* A mutant: the loop ends at the first creation that fails.
CLBApplyVGroupStopsAtError(ans) ==
    /\ applier = "clb" /\ apc = "vgLoop" /\ ai <= Len(local.groups)
    /\ LET l == local.groups[ai]
           k == MatchIndex(l)
           found == k # 0
           old == IF found THEN remote.groups[k] ELSE l
           l2 == IF found /\ l.ServerGroupId = ""
                 THEN [l EXCEPT !.ServerGroupId = old.ServerGroupId] ELSE l
           id == NewGroupIds[ai]
       IN IF l2.ServerGroupId \in plan.updated
          THEN /\ local' = [local EXCEPT !.groups[ai] = l2]
               /\ ai' = ai + 1
               /\ UNCHANGED <<plan, cloud, apc, calls>>
          ELSE IF found
          THEN /\ calls' = Append(calls, ApplyCall("vgroup", "UpdateVServerGroup",
                                                   l2.ServerGroupId, ans = "ok"))
               /\ local' = [local EXCEPT !.groups[ai] = l2]
               /\ plan' = IF ans = "ok"
                          THEN [plan EXCEPT !.updated = @ \cup {l2.ServerGroupId}]
                          ELSE [plan EXCEPT !.errs =
                                         Append(@, <<"EnsureVGroupUpdated", l2.ServerGroupName>>)]
               /\ ai' = ai + 1
               /\ UNCHANGED <<cloud, apc>>
          ELSE /\ calls' = Append(calls, ApplyCall("vgroup", "CreateVServerGroup",
                                                   l2.ServerGroupName, ans = "ok"))
               /\ IF ans = "ok"
                  THEN /\ local' = [local EXCEPT !.groups[ai] = [l2 EXCEPT !.ServerGroupId = id]]
                       /\ cloud' = [cloud EXCEPT !.groups =
                                       Append(@, [l2 EXCEPT !.ServerGroupId = id,
                                                            !.NamedKey = "mine",
                                                            !.Servers = {}])]
                       /\ apc' = "vgAdd"
                       /\ UNCHANGED <<plan, ai>>
                  ELSE /\ local' = [local EXCEPT !.groups[ai] = l2]
                       /\ plan' = [plan EXCEPT !.errs =
                                      Append(@, <<"CreateVServerGroup", l2.ServerGroupName>>)]
                       /\ ai' = Len(local.groups) + 1
                       /\ UNCHANGED <<cloud, apc>>
    /\ UNCHANGED <<applier, req, remote, errs, aret>>
    /\ UNCHANGED notApplyVars

\* A mutant: a group whose creation failed joins the remote model.
CLBApplyVGroupAppendsFailed(ans) ==
    /\ applier = "clb" /\ apc = "vgLoop" /\ ai <= Len(local.groups)
    /\ LET l == local.groups[ai]
           k == MatchIndex(l)
           found == k # 0
           old == IF found THEN remote.groups[k] ELSE l
           l2 == IF found /\ l.ServerGroupId = ""
                 THEN [l EXCEPT !.ServerGroupId = old.ServerGroupId] ELSE l
           id == NewGroupIds[ai]
       IN IF l2.ServerGroupId \in plan.updated
          THEN /\ local' = [local EXCEPT !.groups[ai] = l2]
               /\ ai' = ai + 1
               /\ UNCHANGED <<plan, cloud, apc, calls>>
          ELSE IF found
          THEN /\ calls' = Append(calls, ApplyCall("vgroup", "UpdateVServerGroup",
                                                   l2.ServerGroupId, ans = "ok"))
               /\ local' = [local EXCEPT !.groups[ai] = l2]
               /\ plan' = IF ans = "ok"
                          THEN [plan EXCEPT !.updated = @ \cup {l2.ServerGroupId}]
                          ELSE [plan EXCEPT !.errs =
                                         Append(@, <<"EnsureVGroupUpdated", l2.ServerGroupName>>)]
               /\ ai' = ai + 1
               /\ UNCHANGED <<cloud, apc>>
          ELSE /\ calls' = Append(calls, ApplyCall("vgroup", "CreateVServerGroup",
                                                   l2.ServerGroupName, ans = "ok"))
               /\ IF ans = "ok"
                  THEN /\ local' = [local EXCEPT !.groups[ai] = [l2 EXCEPT !.ServerGroupId = id]]
                       /\ cloud' = [cloud EXCEPT !.groups =
                                       Append(@, [l2 EXCEPT !.ServerGroupId = id,
                                                            !.NamedKey = "mine",
                                                            !.Servers = {}])]
                       /\ apc' = "vgAdd"
                       /\ UNCHANGED <<plan, ai>>
                  ELSE /\ local' = [local EXCEPT !.groups[ai] = l2]
                       /\ plan' = [plan EXCEPT !.errs =
                                      Append(@, <<"CreateVServerGroup", l2.ServerGroupName>>)]
                       /\ ai' = ai + 1
                       /\ UNCHANGED <<cloud, apc>>
    /\ remote' = IF /\ MatchIndex(local.groups[ai]) = 0
                     /\ local.groups[ai].ServerGroupId \notin plan.updated
                     /\ ans # "ok"
                  THEN [remote EXCEPT !.groups = Append(@, local.groups[ai])]
                  ELSE remote
    /\ UNCHANGED <<applier, req, errs, aret>>
    /\ UNCHANGED notApplyVars

\* clbv1 applyVGroups, one desired group: it is matched, then updated or
\* created; an error is collected and the loop goes on.
CLBApplyVGroup(ans) ==
    /\ applier = "clb" /\ apc = "vgLoop" /\ ai <= Len(local.groups)
    /\ LET l == local.groups[ai]
           k == MatchIndex(l)
           found == k # 0
           old == IF found THEN remote.groups[k] ELSE l
           l2 == IF found /\ l.ServerGroupId = ""
                 THEN [l EXCEPT !.ServerGroupId = old.ServerGroupId] ELSE l
           id == NewGroupIds[ai]
       IN IF l2.ServerGroupId \in plan.updated
          THEN /\ local' = [local EXCEPT !.groups[ai] = l2]
               /\ ai' = ai + 1
               /\ UNCHANGED <<plan, cloud, apc, calls>>
          ELSE IF found
          THEN /\ calls' = Append(calls, ApplyCall("vgroup", "UpdateVServerGroup",
                                                   l2.ServerGroupId, ans = "ok"))
               /\ local' = [local EXCEPT !.groups[ai] = l2]
               /\ plan' = IF ans = "ok"
                          THEN [plan EXCEPT !.updated = @ \cup {l2.ServerGroupId}]
                          ELSE [plan EXCEPT !.errs =
                                         Append(@, <<"EnsureVGroupUpdated", l2.ServerGroupName>>)]
               /\ ai' = ai + 1
               /\ UNCHANGED <<cloud, apc>>
          ELSE /\ calls' = Append(calls, ApplyCall("vgroup", "CreateVServerGroup",
                                                   l2.ServerGroupName, ans = "ok"))
               /\ IF ans = "ok"
                  THEN /\ local' = [local EXCEPT !.groups[ai] = [l2 EXCEPT !.ServerGroupId = id]]
                       /\ cloud' = [cloud EXCEPT !.groups =
                                       Append(@, [l2 EXCEPT !.ServerGroupId = id,
                                                            !.NamedKey = "mine",
                                                            !.Servers = {}])]
                       /\ apc' = "vgAdd"
                       /\ UNCHANGED <<plan, ai>>
                  ELSE /\ local' = [local EXCEPT !.groups[ai] = l2]
                       /\ plan' = [plan EXCEPT !.errs =
                                      Append(@, <<"CreateVServerGroup", l2.ServerGroupName>>)]
                       /\ ai' = ai + 1
                       /\ UNCHANGED <<cloud, apc>>
    /\ UNCHANGED <<applier, req, remote, errs, aret>>
    /\ UNCHANGED notApplyVars

\* A mutant: the created group does not join the remote model.
CLBBatchAddBackendsNoAppend(ans) ==
    /\ applier = "clb" /\ apc = "vgAdd"
    /\ LET l == local.groups[ai]
       IN /\ calls' = Append(calls, ApplyCall("vgroup", "BatchAddVServerGroupBackendServers",
                                              l.ServerGroupId, ans = "ok"))
          /\ IF ans = "ok"
             THEN /\ plan' = [plan EXCEPT !.updated = @ \cup {l.ServerGroupId}]
                  /\ cloud' = [cloud EXCEPT !.groups =
                        [j \in 1..Len(@) |-> IF @[j].ServerGroupId = l.ServerGroupId
                                             THEN [@[j] EXCEPT !.Servers = l.Servers]
                                             ELSE @[j]]]
             ELSE /\ plan' = [plan EXCEPT !.errs =
                                 Append(@, <<"BatchAddVServerGroupBackendServers", l.ServerGroupName>>)]
                  /\ cloud' = cloud
    /\ remote' = remote
    /\ apc' = "vgLoop"
    /\ ai' = ai + 1
    /\ UNCHANGED <<applier, req, local, errs, aret>>
    /\ UNCHANGED notApplyVars

\* The backends are added to the created group, and the group joins the
\* remote model.
CLBBatchAddBackends(ans) ==
    /\ applier = "clb" /\ apc = "vgAdd"
    /\ LET l == local.groups[ai]
       IN /\ calls' = Append(calls, ApplyCall("vgroup", "BatchAddVServerGroupBackendServers",
                                              l.ServerGroupId, ans = "ok"))
          /\ IF ans = "ok"
             THEN /\ remote' = [remote EXCEPT !.groups = Append(@, l)]
                  /\ plan' = [plan EXCEPT !.updated = @ \cup {l.ServerGroupId}]
                  /\ cloud' = [cloud EXCEPT !.groups =
                        [j \in 1..Len(@) |-> IF @[j].ServerGroupId = l.ServerGroupId
                                             THEN [@[j] EXCEPT !.Servers = l.Servers]
                                             ELSE @[j]]]
             ELSE /\ plan' = [plan EXCEPT !.errs =
                                 Append(@, <<"BatchAddVServerGroupBackendServers", l.ServerGroupName>>)]
                  /\ UNCHANGED <<remote, cloud>>
    /\ apc' = "vgLoop"
    /\ ai' = ai + 1
    /\ UNCHANGED <<applier, req, local, errs, aret>>
    /\ UNCHANGED notApplyVars

-----------------------------------------------------------------------------
(* The listener phase *)

Listener(id, proto, port, start, end, sgName, sgId, key) ==
    [ListenerId |-> id, ListenerProtocol |-> proto, ListenerPort |-> port,
     StartPort |-> start, EndPort |-> end, ServerGroupName |-> sgName,
     ServerGroupId |-> sgId, NamedKey |-> key]

NewListenerIds == <<"lsn-n1", "lsn-n2", "lsn-n3">>

\* nlbv2 Apply: the attribute phase ran and there is no load balancer.
NLBNoLoadBalancer ==
    /\ applier = "nlb" /\ apc = "noLB"
    /\ IF ~req.deleting
       THEN ReturnRemote(<<"can not find loadbalancer by tag">>)
       ELSE apc' = PhaseAfter("listeners", remote.id) /\ aret' = aret
    /\ UNCHANGED <<applier, req, local, remote, cloud, ai, plan, errs, calls>>
    /\ UNCHANGED notApplyVars

ListenerBuildRemoteModel(ans) ==
    /\ apc = "lisBuild"
    /\ calls' = Append(calls, ApplyCall("build", "BuildRemoteModel", "listeners", ans = "ok"))
    /\ IF ans = "ok"
       THEN /\ remote' = [remote EXCEPT !.listeners = cloud.listeners]
            /\ apc' = "lisPlan"
            /\ aret' = aret
       ELSE /\ ReturnRemote(<<"get lb listeners from cloud">>)
            /\ remote' = remote
    /\ UNCHANGED <<applier, req, local, cloud, ai, plan, errs>>
    /\ UNCHANGED notApplyVars

\* A mutant: the observed listeners of a reused load balancer are deleted
\* without force-override.
ListenersSkipReusedPlans ==
    /\ apc = "lisPlan"
    /\ local.IsUserManaged /\ ~req.forceOverride
    /\ plan' = [NoPlan EXCEPT !.actions =
                   [k \in 1..Len(remote.listeners) |->
                       [Action |-> "Delete", Local |-> 0, Listener |-> remote.listeners[k]]]]
    /\ ai' = 1
    /\ apc' = "lisExec"
    /\ UNCHANGED <<applier, req, local, remote, cloud, errs, calls, aret>>
    /\ UNCHANGED notApplyVars

\* A reused load balancer without force-override keeps its listeners.
ListenersSkipReused ==
    /\ apc = "lisPlan"
    /\ local.IsUserManaged /\ ~req.forceOverride
    /\ apc' = PhaseAfter("listeners", remote.id)
    /\ UNCHANGED <<applier, req, local, remote, cloud, ai, plan, errs, calls, aret>>
    /\ UNCHANGED notApplyVars

isListenerPortMatch(l, r) ==
    IF l.ListenerPort # 0 THEN l.ListenerPort = r.ListenerPort
    ELSE l.StartPort = r.StartPort /\ l.EndPort = r.EndPort

ListenerMatch(l, r) == isListenerPortMatch(l, r) /\ r.ListenerProtocol = l.ListenerProtocol

\* A mutant: a listener whose group is not found is no error.
findServerGroupNoError(sgs, lis) ==
    LET hits == {k \in 1..Len(sgs) : sgs[k].ServerGroupName = lis.ServerGroupName}
    IN IF hits = {} THEN [err |-> FALSE, id |-> ""]
       ELSE [err |-> FALSE, id |-> sgs[CHOOSE k \in hits : \A j \in hits : k <= j].ServerGroupId]

\* findServerGroup: the identity of the first desired group of that name, or
\* "" when there is none (an error).
findServerGroup(sgs, lis) ==
    LET hits == {k \in 1..Len(sgs) : sgs[k].ServerGroupName = lis.ServerGroupName}
    IN IF hits = {} THEN [err |-> TRUE, id |-> ""]
       ELSE [err |-> FALSE, id |-> sgs[CHOOSE k \in hits : \A j \in hits : k <= j].ServerGroupId]

\* The desired listeners after the resolution of their server groups.
ResolvedListeners(loc) ==
    [i \in 1..Len(loc.listeners) |->
        IF loc.listeners[i].ServerGroupId # "" THEN loc.listeners[i]
        ELSE [loc.listeners[i] EXCEPT !.ServerGroupId = findServerGroup(loc.groups, loc.listeners[i]).id]]

ResolutionFails(loc) ==
    \E i \in 1..Len(loc.listeners) :
        /\ loc.listeners[i].ServerGroupId = ""
        /\ findServerGroup(loc.groups, loc.listeners[i]).err

\* The identity a desired listener takes from the observed listeners it
\* matches: the one of the last match.
MatchedListenerId(l, rls) ==
    LET hits == {j \in 1..Len(rls) : ListenerMatch(l, rls[j])}
    IN IF hits = {} THEN l.ListenerId
       ELSE rls[CHOOSE j \in hits : \A h \in hits : h <= j].ListenerId

\* A mutant: every unmatched observed listener is deleted.
SkipsListenerDeleteNever(um, r) == FALSE

\* Whether the unmatched observed listener r is left alone.
SkipsListenerDelete(um, r) == um /\ r.NamedKey # "mine"

\* The delete actions: the observed listeners no desired listener matches,
\* but for those that are left alone.
ListenerDeletes(loc, rls) ==
    LET Candidate(r) == /\ ~\E i \in 1..Len(loc.listeners) : ListenerMatch(loc.listeners[i], r)
                        /\ ~SkipsListenerDelete(loc.IsUserManaged, r)
        Act(r) == [Action |-> "Delete", Local |-> 0, Listener |-> r]
        sel == SelectSeq(rls, Candidate)
    IN [k \in 1..Len(sel) |-> Act(sel[k])]

RECURSIVE Flatten(_)
Flatten(qq) == IF qq = <<>> THEN <<>> ELSE Head(qq) \o Flatten(Tail(qq))

\* The update and create actions of the desired listeners ls, in their order.
ListenerUpserts(ls, rls) ==
    LET Hits(i) == SelectSeq(rls, LAMBDA r : ls[i].ListenerId = r.ListenerId)
        For(i) == IF Hits(i) = <<>>
                  THEN <<[Action |-> "Create", Local |-> i, Listener |-> ls[i]]>>
                  ELSE [k \in 1..Len(Hits(i)) |->
                            [Action |-> "Update", Local |-> i, Listener |-> Hits(i)[k]]]
    IN Flatten([i \in 1..Len(ls) |-> For(i)])

\* nlbv2 applyListeners up to ParallelUpdateListeners: the desired listeners
\* get their server groups and identities, and the actions are planned.
NLBPlanListeners ==
    /\ applier = "nlb" /\ apc = "lisPlan"
    /\ ~(local.IsUserManaged /\ ~req.forceOverride)
    /\ IF ResolutionFails(local)
       THEN /\ errs' = Append(errs, "reconcile listeners")
            /\ aret' = [set |-> TRUE, remote |-> "remote", err |-> errs']
            /\ apc' = "done"
            /\ UNCHANGED <<local, plan>>
       ELSE LET res == ResolvedListeners(local)
                ls == [i \in 1..Len(res) |->
                         [res[i] EXCEPT !.ListenerId = MatchedListenerId(res[i], remote.listeners)]]
            IN /\ local' = [local EXCEPT !.listeners = ls]
               /\ plan' = [NoPlan EXCEPT !.actions =
                              ListenerDeletes(local, remote.listeners)
                              \o ListenerUpserts(ls, remote.listeners)]
               /\ apc' = "lisExec"
               /\ UNCHANGED <<errs, aret>>
    /\ UNCHANGED <<applier, req, remote, cloud, ai, calls>>
    /\ UNCHANGED notApplyVars

RECURSIVE Reverse(_)
Reverse(q) == IF q = <<>> THEN <<>> ELSE Append(Reverse(Tail(q)), Head(q))

IsHTTPS(a) == a.Listener.ListenerProtocol = "https"

\* A mutant: the creations keep the order they were built in.
SortCreateActionsUnsorted(q) == q

\* sort.SliceStable(actions, less) with a less(i, j) that looks at actions[i]
\* only: the insertion sort moves every element less holds of before all that
\* precede it.  HTTPS comes first in the creations, last in the deletions.
SortCreateActions(q) ==
    Reverse(SelectSeq(q, IsHTTPS)) \o SelectSeq(q, LAMBDA a : ~IsHTTPS(a))

SortDeleteActions(q) ==
    Reverse(SelectSeq(q, LAMBDA a : ~IsHTTPS(a))) \o SelectSeq(q, IsHTTPS)

\* buildActionsForListeners: the create, update and delete actions of the
\* desired against the observed listeners.
buildActionsForListeners(loc, rls) ==
    LET res == ResolvedListeners(loc)
        ls == [i \in 1..Len(res) |->
                 [res[i] EXCEPT !.ListenerId = MatchedListenerId(res[i], rls)]]
        ups == ListenerUpserts(ls, rls)
    IN [err |-> ResolutionFails(loc),
        listeners |-> ls,
        createActions |-> SelectSeq(ups, LAMBDA a : a.Action = "Create"),
        updateActions |-> SelectSeq(ups, LAMBDA a : a.Action = "Update"),
        deleteActions |-> ListenerDeletes(loc, rls)]

\* A mutant: the updates run first, then the creations, then the deletions.
CLBPlanListenersUpdatesFirst ==
    /\ applier = "clb" /\ apc = "lisPlan"
    /\ ~(local.IsUserManaged /\ ~req.forceOverride)
    /\ LET b == buildActionsForListeners(local, remote.listeners)
       IN IF b.err
          THEN /\ errs' = Append(errs, "update lb listeners")
               /\ aret' = [set |-> TRUE, remote |-> "remote", err |-> errs']
               /\ apc' = "done"
               /\ UNCHANGED <<local, plan, ai>>
          ELSE /\ local' = [local EXCEPT !.listeners = b.listeners]
               /\ plan' = [NoPlan EXCEPT !.actions =
                              b.updateActions
                              \o SortCreateActions(b.createActions)
                              \o SortDeleteActions(b.deleteActions)]
               /\ ai' = 1
               /\ apc' = "lisExec"
               /\ UNCHANGED <<errs, aret>>
    /\ UNCHANGED <<applier, req, remote, cloud, calls>>
    /\ UNCHANGED notApplyVars

\* clbv1 applyListeners up to the execution: the actions are built and put in
\* order, deletions first, then creations, then updates.
CLBPlanListeners ==
    /\ applier = "clb" /\ apc = "lisPlan"
    /\ ~(local.IsUserManaged /\ ~req.forceOverride)
    /\ LET b == buildActionsForListeners(local, remote.listeners)
       IN IF b.err
          THEN /\ errs' = Append(errs, "update lb listeners")
               /\ aret' = [set |-> TRUE, remote |-> "remote", err |-> errs']
               /\ apc' = "done"
               /\ UNCHANGED <<local, plan, ai>>
          ELSE /\ local' = [local EXCEPT !.listeners = b.listeners]
               /\ plan' = [NoPlan EXCEPT !.actions =
                              SortDeleteActions(b.deleteActions)
                              \o SortCreateActions(b.createActions)
                              \o b.updateActions]
               /\ ai' = 1
               /\ apc' = "lisExec"
               /\ UNCHANGED <<errs, aret>>
    /\ UNCHANGED <<applier, req, remote, cloud, calls>>
    /\ UNCHANGED notApplyVars

\* The effect of a listener action on the cloud.
ListenerEffect(c, a) ==
    CASE a.Action = "Delete" ->
            [c EXCEPT !.listeners = SelectSeq(@, LAMBDA r : r.ListenerId # a.Listener.ListenerId)]
      [] a.Action = "Create" ->
            [c EXCEPT !.listeners = Append(@, [a.Listener EXCEPT !.ListenerId = NewListenerIds[a.Local],
                                                               !.NamedKey = "mine"])]
      [] OTHER -> c

ListenerCall(a, ans) ==
    [phase |-> "listener",
     op |-> CASE a.Action = "Delete" -> "DeleteListener"
              [] a.Action = "Create" -> "CreateListener"
              [] OTHER -> "UpdateListener",
     target |-> a.Listener.ListenerId, ok |-> ans = "ok", listener |-> a.Listener]

\* lisMgr.ParallelUpdateListeners: the planned actions run in parallel, here
\* one at a time in any order.
ParallelUpdateListener(k, ans) ==
    /\ applier = "nlb" /\ apc = "lisExec"
    /\ k \in 1..Len(plan.actions)
    /\ LET a == plan.actions[k]
       IN /\ calls' = Append(calls, ListenerCall(a, ans))
          /\ plan' = [plan EXCEPT !.actions = RemoveAt(@, k),
                                  !.errs = IF ans = "ok" THEN @ ELSE Append(@, a.Action)]
          /\ cloud' = IF ans = "ok" THEN ListenerEffect(cloud, a)
                      ELSE cloud
    /\ UNCHANGED <<applier, req, local, remote, apc, ai, errs, aret>>
    /\ UNCHANGED notApplyVars

\* A mutant: after a failed action the next action runs.
CLBListenerActionGoesOn(ans) ==
    /\ applier = "clb" /\ apc = "lisExec" /\ ai <= Len(plan.actions)
    /\ LET a == plan.actions[ai]
       IN /\ calls' = Append(calls, ListenerCall(a, ans))
          /\ cloud' = IF ans = "ok" THEN ListenerEffect(cloud, a) ELSE cloud
          /\ ai' = ai + 1
          /\ UNCHANGED <<errs, aret, apc>>
    /\ UNCHANGED <<applier, req, local, remote, plan>>
    /\ UNCHANGED notApplyVars

\* clbv1 applyListeners, the next action; the first error ends the phase.
CLBListenerAction(ans) ==
    /\ applier = "clb" /\ apc = "lisExec" /\ ai <= Len(plan.actions)
    /\ LET a == plan.actions[ai]
       IN /\ calls' = Append(calls, ListenerCall(a, ans))
          /\ IF ans = "ok"
             THEN /\ cloud' = ListenerEffect(cloud, a)
                  /\ ai' = ai + 1
                  /\ UNCHANGED <<errs, aret, apc>>
             ELSE /\ errs' = Append(errs, "update lb listeners")
                  /\ aret' = [set |-> TRUE, remote |-> "remote", err |-> errs']
                  /\ apc' = "done"
                  /\ UNCHANGED <<cloud, ai>>
    /\ UNCHANGED <<applier, req, local, remote, plan>>
    /\ UNCHANGED notApplyVars

\* applyListeners returns: its errors end Apply.
ListenersDone ==
    /\ apc = "lisExec"
    /\ \/ applier = "nlb" /\ plan.actions = <<>>
       \/ applier = "clb" /\ ai > Len(plan.actions)
    /\ IF plan.errs # <<>>
       THEN /\ errs' = Append(errs, "reconcile listeners")
            /\ aret' = [set |-> TRUE, remote |-> "remote", err |-> errs']
            /\ apc' = "done"
       ELSE /\ apc' = PhaseAfter("listeners", remote.id)
            /\ UNCHANGED <<errs, aret>>
    /\ plan' = NoPlan
    /\ ai' = 1
    /\ UNCHANGED <<applier, req, local, remote, cloud, calls>>
    /\ UNCHANGED notApplyVars

-----------------------------------------------------------------------------
(* The cleanup *)

\* isVGroupManagedByMyService: the group carries the key of this service and
\* is not user-managed.
isVGroupManagedByMyService(vg) == vg.NamedKey = "mine" /\ ~vg.IsUserManaged

\* A mutant: cleanup deletes every unmatched observed group.
KeepsGroupNever(r) == FALSE

\* A mutant: cleanup deletes no group.
KeepsGroupAlways(r) == TRUE

\* Whether cleanup leaves the unmatched observed group r in place and only
\* removes servers.
KeepsGroup(r) ==
    IF applier = "nlb"
    THEN r.NamedKey = "nil" \/ r.IsUserManaged \/ r.NamedKey # "mine"
    ELSE ~isVGroupManagedByMyService(r)

\* The servers cleanup removes from a group it keeps.
ServersToRemove(r) == {s \in r.Servers : ~s.IsUserManaged}

WithoutGroup(c, id) ==
    [c EXCEPT !.groups = SelectSeq(@, LAMBDA g : g.ServerGroupId # id)]

\* The cloud after the group id lost its key (strip) or the servers gone.
WithGroup(c, id, strip, gone) ==
    [c EXCEPT !.groups = [j \in 1..Len(@) |->
        IF @[j].ServerGroupId = id
        THEN [@[j] EXCEPT !.NamedKey = IF strip THEN "nil" ELSE @, !.Servers = @ \ gone]
        ELSE @[j]]]

\* A mutant: cleanup has no preserve-on-delete branch.
CleanupGroupDeletesPreserved(ans) ==
    /\ apc = "cleanup" /\ ai <= Len(remote.groups)
    /\ LET r == Deref(local, remote.groups[ai])
           found == \E i \in 1..Len(local.groups) :
                        local.groups[i].ServerGroupId = r.ServerGroupId
           del == ServersToRemove(r)
           op == CASE found -> "none"
                   [] KeepsGroup(r) -> IF del # {} THEN "BatchRemoveServers" ELSE "none"
                   [] OTHER -> "DeleteServerGroup"
       IN /\ calls' = IF op = "none" THEN calls
                      ELSE Append(calls, [phase |-> "cleanup", op |-> op,
                                          target |-> r.ServerGroupId, ok |-> ans = "ok",
                                          group |-> r, servers |-> del])
          /\ IF op = "none" \/ ans = "ok"
             THEN /\ cloud' =
                       CASE op = "CleanupServerGroupTags" ->
                               WithGroup(cloud, r.ServerGroupId, TRUE, {})
                         [] op = "BatchRemoveServers" ->
                               WithGroup(cloud, r.ServerGroupId, FALSE, del)
                         [] op = "DeleteServerGroup" -> WithoutGroup(cloud, r.ServerGroupId)
                         [] OTHER -> cloud
                  /\ ai' = ai + 1
                  /\ UNCHANGED <<errs, aret, apc>>
             ELSE /\ errs' = Append(errs, "update lb listeners")
                  /\ aret' = [set |-> TRUE, remote |-> "remote", err |-> errs']
                  /\ apc' = "done"
                  /\ UNCHANGED <<cloud, ai>>
    /\ UNCHANGED <<applier, req, local, remote, plan>>
    /\ UNCHANGED notApplyVars

\* cleanup, one observed group: a group no desired group has the identity of
\* loses its tags (NLB, preserve-on-delete), loses its servers, or is deleted.
CleanupGroup(ans) ==
    /\ apc = "cleanup" /\ ai <= Len(remote.groups)
    /\ LET r == Deref(local, remote.groups[ai])
           found == \E i \in 1..Len(local.groups) :
                        local.groups[i].ServerGroupId = r.ServerGroupId
           del == ServersToRemove(r)
           op == CASE found -> "none"
                   [] applier = "nlb" /\ local.PreserveOnDelete -> "CleanupServerGroupTags"
                   [] KeepsGroup(r) -> IF del # {} THEN "BatchRemoveServers" ELSE "none"
                   [] OTHER -> "DeleteServerGroup"
       IN /\ calls' = IF op = "none" THEN calls
                      ELSE Append(calls, [phase |-> "cleanup", op |-> op,
                                          target |-> r.ServerGroupId, ok |-> ans = "ok",
                                          group |-> r, servers |-> del])
          /\ IF op = "none" \/ ans = "ok"
             THEN /\ cloud' =
                       CASE op = "CleanupServerGroupTags" ->
                               WithGroup(cloud, r.ServerGroupId, TRUE, {})
                         [] op = "BatchRemoveServers" ->
                               WithGroup(cloud, r.ServerGroupId, FALSE, del)
                         [] op = "DeleteServerGroup" -> WithoutGroup(cloud, r.ServerGroupId)
                         [] OTHER -> cloud
                  /\ ai' = ai + 1
                  /\ UNCHANGED <<errs, aret, apc>>
             ELSE /\ errs' = Append(errs, "update lb listeners")
                  /\ aret' = [set |-> TRUE, remote |-> "remote", err |-> errs']
                  /\ apc' = "done"
                  /\ UNCHANGED <<cloud, ai>>
    /\ UNCHANGED <<applier, req, local, remote, plan>>
    /\ UNCHANGED notApplyVars

\* Apply returns the remote model and the errors collected.
CleanupDone ==
    /\ apc = "cleanup" /\ ai > Len(remote.groups)
    /\ ReturnRemote(<<>>)
    /\ UNCHANGED <<applier, req, local, remote, cloud, ai, plan, errs, calls>>
    /\ UNCHANGED notApplyVars

-----------------------------------------------------------------------------
(* The calls of Apply the model runs *)

ExistingLB(tags) == [exists |-> TRUE, id |-> LbId, addr |-> LbAddr, tags |-> tags,
                     protections |-> TRUE]

Request(deleting, hashChanged, dryRun, ingress, externalIPType, forceOverride) ==
    [deleting |-> deleting, hashChanged |-> hashChanged, dryRun |-> dryRun,
     ingress |-> ingress, externalIPType |-> externalIPType,
     forceOverride |-> forceOverride]

Desired(um, preserve, needsUpdate, groups, listeners) ==
    [LoadBalancerId |-> IF um THEN LbId ELSE "", IsUserManaged |-> um,
     PreserveOnDelete |-> preserve, NeedsUpdateAfterCreate |-> needsUpdate,
     groups |-> groups, listeners |-> listeners]

IngressChoices ==
    {<<>>, <<Ingress(LbAddr, "")>>, <<Ingress(OtherAddr, "")>>,
     <<Ingress("", LbAddr)>>, <<Ingress("", OtherAddr)>>}

TagChoices == {{}, {TAGKEY}, {ClusterTagKey}, {UserTag}}

\* The servers, server groups and listeners of the calls: desired ones, and
\* observed ones of this service, user-managed, of another owner, without key.
Sample ==
    LET ecs1 == Server("ecs-1", FALSE)
        eci2 == Server("eci-2", TRUE)
    IN [ecs1 |-> ecs1,
        eci2 |-> eci2,
        desiredG1 |-> Group("", "g1", "Instance", FALSE, "mine", {ecs1}),
        desiredG2 |-> Group("", "g2", "Instance", FALSE, "mine", {ecs1}),
        desiredIp |-> Group("", "g1", "Ip", FALSE, "mine", {ecs1}),
        desiredById |-> Group("sg-1", "g1", "Ip", TRUE, "nil", {}),
        desiredReuse |-> Group("sg-1", "g1", "Instance", TRUE, "nil", {ecs1}),
        observedG1 |-> Group("sg-1", "g1", "Instance", FALSE, "mine", {ecs1, eci2}),
        staleOwned |-> Group("sg-2", "old", "Instance", FALSE, "mine", {ecs1}),
        staleUserManaged |-> Group("sg-3", "usr", "Instance", TRUE, "mine", {ecs1, eci2}),
        staleOther |-> Group("sg-4", "oth", "Instance", FALSE, "other", {ecs1}),
        staleNoKey |-> Group("sg-5", "raw", "Instance", FALSE, "nil", {eci2}),
        desiredTcp80 |-> Listener("", "tcp", 80, 0, 0, "g1", "", "mine"),
        desiredHttps |-> Listener("", "https", 443, 0, 0, "g1", "", "mine"),
        desiredRange |-> Listener("", "tcp", 0, 100, 200, "g2", "", "mine"),
        observedTcp80 |-> Listener("lsn-1", "tcp", 80, 0, 0, "g1", "sg-1", "mine"),
        observedUdp53 |-> Listener("lsn-2", "udp", 53, 0, 0, "g1", "sg-1", "nil"),
        observedHttps |-> Listener("lsn-3", "https", 8443, 0, 0, "g1", "sg-1", "mine"),
        observedOther |-> Listener("lsn-4", "tcp", 0, 100, 200, "g1", "sg-1", "other"),
        desiredHttps444 |-> Listener("", "https", 444, 0, 0, "g1", "", "mine"),
        observedHttps9443 |-> Listener("lsn-5", "https", 9443, 0, 0, "g1", "sg-1", "mine")]

DesiredGroupChoices ==
    {<<>>, <<Sample.desiredG1>>, <<Sample.desiredG1, Sample.desiredG2>>,
     <<Sample.desiredIp>>, <<Sample.desiredById>>}

ObservedGroupChoices ==
    {<<>>, <<Sample.observedG1, Sample.staleOwned>>,
     <<Sample.staleUserManaged, Sample.staleOther>>,
     <<Sample.staleNoKey, Sample.observedG1>>}

DesiredListenerChoices ==
    {<<>>, <<Sample.desiredTcp80>>, <<Sample.desiredTcp80, Sample.desiredHttps>>,
     <<Sample.desiredRange>>}

ObservedListenerChoices ==
    {<<>>, <<Sample.observedTcp80, Sample.observedUdp53>>,
     <<Sample.observedHttps, Sample.observedOther>>}

Scenario(a, r, l, c) == [applier |-> a, req |-> r, local |-> l, cloud |-> c]

\* Calls that differ in the service and the load balancer.
AttributeScenarios ==
    {Scenario(a, Request(del, run[1], run[2], ing, eip, FALSE),
              Desired(um, pre, upd, <<Sample.desiredG1>>, <<Sample.desiredTcp80>>),
              IF tags = {"none"}
              THEN [lb |-> NoLB, groups |-> IF a = "clb" THEN <<>> ELSE <<Sample.staleOwned>>,
                    listeners |-> <<>>]
              ELSE [lb |-> ExistingLB(tags), groups |-> <<Sample.staleOwned>>,
                    listeners |-> <<Sample.observedUdp53>>]) :
        a \in {"nlb", "clb"}, del \in BOOLEAN,
        run \in {<<TRUE, FALSE>>, <<FALSE, FALSE>>, <<FALSE, TRUE>>},
        ing \in IngressChoices, eip \in {"", "eip"},
        um \in BOOLEAN, pre \in BOOLEAN, upd \in BOOLEAN,
        tags \in TagChoices \cup {{"none"}}}

\* Calls that differ in the server groups and the listeners.
SubResourceScenarios ==
    {Scenario(a, Request(FALSE, TRUE, FALSE, <<>>, "", force),
              Desired(um, pre, FALSE, lg, ll),
              [lb |-> ExistingLB(IF um THEN {} ELSE {TAGKEY}), groups |-> cg,
               listeners |-> cl]) :
        a \in {"nlb", "clb"}, force \in BOOLEAN, um \in BOOLEAN, pre \in BOOLEAN,
        lg \in DesiredGroupChoices, cg \in ObservedGroupChoices,
        ll \in DesiredListenerChoices, cl \in ObservedListenerChoices}

\* Calls of the CLB applier that differ in the listeners and in their order.
ListenerOrderScenarios ==
    LET desired == {Sample.desiredTcp80, Sample.desiredHttps, Sample.desiredHttps444,
                    Sample.desiredRange}
        observed == {Sample.observedUdp53, Sample.observedHttps, Sample.observedHttps9443,
                     Sample.observedOther}
    IN {Scenario("clb", Request(FALSE, TRUE, FALSE, <<>>, "", TRUE),
                 Desired(FALSE, FALSE, FALSE, <<Sample.desiredG1, Sample.desiredG2>>, ll),
                 [lb |-> ExistingLB({TAGKEY}), groups |-> <<Sample.observedG1>>,
                  listeners |-> cl]) :
           ll \in {q \in SeqsUpTo(desired, 3) : NoDuplicates(q)},
           cl \in {q \in SeqsUpTo(observed, 3) : NoDuplicates(q)}}

\* Calls that differ in the desired groups: a group before a user-managed
\* group of another type, an observed group reached by identity and by name,
\* a name twice and an identity twice.
GroupSetScenarios ==
    {Scenario(a, Request(FALSE, TRUE, FALSE, <<>>, "", TRUE),
              Desired(FALSE, FALSE, FALSE, lg, <<>>),
              [lb |-> ExistingLB({TAGKEY}), groups |-> cg, listeners |-> <<>>]) :
        a \in {"nlb", "clb"},
        lg \in {<<Sample.desiredG2, Sample.desiredById>>,
                <<Sample.desiredReuse, Sample.desiredG1>>,
                <<Sample.desiredG1, Sample.desiredG1>>,
                <<Sample.desiredReuse, Sample.desiredReuse>>},
        cg \in {<<>>, <<Sample.observedG1, Sample.staleOwned>>}}

ApplyScenarios ==
    AttributeScenarios \cup SubResourceScenarios \cup ListenerOrderScenarios
        \cup GroupSetScenarios

ApplyInit ==
    /\ \E sc \in ApplyScenarios :
        /\ applier = sc.applier
        /\ req = sc.req
        /\ local = sc.local
        /\ cloud = sc.cloud
    /\ remote = EmptyRemote
    /\ apc = "start"
    /\ ai = 1
    /\ plan = NoPlan
    /\ errs = <<>>
    /\ calls = <<>>
    /\ aret = Unreturned
    /\ given = [local |-> local, cloud |-> cloud, pass |-> 1, from |-> 0, rebuilt |-> FALSE,
                second |-> local]

ApplyIdle ==
    /\ applier = "nlb"
    /\ req = Request(FALSE, FALSE, FALSE, <<>>, "", FALSE)
    /\ local = Desired(FALSE, FALSE, FALSE, <<>>, <<>>)
    /\ cloud = [lb |-> NoLB, groups |-> <<>>, listeners |-> <<>>]
    /\ remote = EmptyRemote
    /\ apc = "idle"
    /\ ai = 1
    /\ plan = NoPlan
    /\ errs = <<>>
    /\ calls = <<>>
    /\ aret = Unreturned
    /\ given = [local |-> local, cloud |-> cloud, pass |-> 1, from |-> 0, rebuilt |-> FALSE,
                second |-> local]

ApplyNext ==
    \/ \E ans \in PlainAnswers : ApplyStart(ans)
    \/ AttrSkipReused
    \/ \E ans \in PlainAnswers : AttrSetProtectionsOff(ans)
    \/ \E ans \in PlainAnswers : AttrCleanupLoadBalancerTags(ans)
    \/ \E ans \in PlainAnswers : AttrDelete(ans)
    \/ AttrOwnIngress
    \/ \E ans \in PlainAnswers : AttrCreate(ans)
    \/ \E ans \in PlainAnswers : AttrFind(ans)
    \/ \E ans \in PlainAnswers : AttrListTags(ans)
    \/ \E ans \in UpdateAnswers : AttrUpdate(ans)
    \/ IdCheck
    \/ \E ans \in PlainAnswers : GroupBuildRemoteModel(ans)
    \/ NLBPlanGroup
    \/ NLBPlanGroupsEnd
    \/ \E k \in 1..3, ans \in PlainAnswers : ParallelUpdateServerGroup(k, ans)
    \/ \E ans \in PlainAnswers : CLBApplyVGroup(ans)
    \/ \E ans \in PlainAnswers : CLBBatchAddBackends(ans)
    \/ GroupsDone
    \/ NLBNoLoadBalancer
    \/ \E ans \in PlainAnswers : ListenerBuildRemoteModel(ans)
    \/ ListenersSkipReused
    \/ NLBPlanListeners
    \/ CLBPlanListeners
    \/ \E k \in 1..3, ans \in PlainAnswers : ParallelUpdateListener(k, ans)
    \/ \E ans \in PlainAnswers : CLBListenerAction(ans)
    \/ ListenersDone
    \/ \E ans \in PlainAnswers : CleanupGroup(ans)
    \/ CleanupDone

\* The caller calls Apply again after a call that returned no error: with the
\* local model it built from the service, or with the model the first call
\* worked on, against the cloud as the first call left it.
ApplyAgain ==
    /\ apc = "done" /\ aret.set /\ aret.err = <<>>
    /\ given.pass = 1
    /\ \E rebuilt \in BOOLEAN :
          /\ local' = IF rebuilt THEN given.local ELSE local
          /\ given' = [given EXCEPT !.pass = 2, !.from = Len(calls), !.cloud = cloud,
                                    !.rebuilt = rebuilt,
                                    !.second = IF rebuilt THEN given.local ELSE local]
    /\ remote' = EmptyRemote
    /\ apc' = "start"
    /\ ai' = 1
    /\ plan' = NoPlan
    /\ errs' = <<>>
    /\ aret' = Unreturned
    /\ UNCHANGED <<applier, req, cloud, calls>>
    /\ UNCHANGED <<routeVars, funcVars, syncVars, batchVars>>

ApplyTwiceNext ==
    \/ ApplyNext
    \/ ApplyAgain


-----------------------------------------------------------------------------
(* The specifications: each runs one part of the program, the others at rest. *)

\* Concurrent callers of the lock-guarded route functions.
InitRoute == RouteIdle /\ FuncIdle /\ SyncIdle /\ ApplyIdle /\ BatchIdle
SpecRoute == InitRoute /\ [][RouteNext]_vars

\* The same callers under fair scheduling: a caller that can take a step of
\* its function takes it, a cloud call in flight returns, and a caller
\* blocked in routeLock.Lock() gets the lock when it is free again and again
\* (sync.Mutex hands the lock to a waiter that has waited long).
RouteFairness ==
    \A p \in Callers :
        /\ WF_vars(BackoffAttempt(p))
        /\ WF_vars(\E ans \in CreateAnswers : CreateRouteReturn(p, ans))
        /\ WF_vars(\E ans \in FindAnswers : FindRouteReturn(p, ans))
        /\ WF_vars(\E ans \in PlainAnswers : PlainReturn(p, ans))
        /\ WF_vars(Unlock(p))
        /\ SF_vars(Lock(p))

SpecRouteFair == InitRoute /\ [][RouteNext]_vars /\ RouteFairness

\* One call of containsRoute or conflictWithNodes, on every input of the bounds.
InitFunc == RouteIdle /\ FuncInit /\ SyncIdle /\ ApplyIdle /\ BatchIdle
SpecFunc == InitFunc /\ [][FuncNext]_vars

\* One call of syncTableRoutes, on every table and node list of the bounds.
InitSync == RouteIdle /\ FuncIdle /\ SyncInit /\ ApplyIdle /\ BatchIdle
SpecSync == InitSync /\ [][SyncNext]_vars

\* One call of Apply of either applier, on every scenario.
InitApply == RouteIdle /\ FuncIdle /\ SyncIdle /\ ApplyInit /\ BatchIdle
SpecApply == InitApply /\ [][ApplyNext]_vars

\* A call of Apply that returned no error, followed by a second call with the
\* same service against the cloud the first one left.
InitApplyTwice == RouteIdle /\ FuncIdle /\ SyncIdle /\ ApplyInit /\ BatchIdle
SpecApplyTwice == InitApplyTwice /\ [][ApplyTwiceNext]_vars

\* One call of batchAddRoutes or batchDeleteRoutes, on every answer of the cloud.
InitBatch == RouteIdle /\ FuncIdle /\ SyncIdle /\ ApplyIdle /\ BatchInit
SpecBatch == InitBatch /\ [][BatchNext]_vars

-----------------------------------------------------------------------------
(* Claims about the route lock and the create backoff *)

IsCreateCall(p) == rop[p] = "createRouteForInstance" /\ rpc[p] # "idle"

Creates(t) == {i \in 1..Len(t) : t[i].call = "CreateRoute"}
Finds(t) == {i \in 1..Len(t) : t[i].call = "FindRoute"}

\* C2: at any moment at most one of CreateRoute, DeleteRoute, CreateRoutes and
\* DeleteRoutes is in progress, whatever the callers and the tables they target.
C2_OneRouteMutationAtATime ==
    Cardinality({p \in Callers : rpc[p] \in MutationPcs}) <= 1

\* A mutation is in progress while another caller, for another table, waits for the lock.
C2_Witness ==
    \E p, q \in Callers :
        /\ rpc[p] \in MutationPcs
        /\ rpc[q] = "lock"
        /\ rargs[p].table # rargs[q].table

\* C3: in createRouteForInstance a CreateRoute attempt that fails with a duplicate
\* error is followed by exactly one FindRoute for the call's (table, providerID, cidr)
\* and by no further CreateRoute; the call returns the found route with no error when
\* the lookup finds one, and an error, at once, when it finds none or fails.
C3_DuplicateLookupFailFast ==
    \A p \in Callers : IsCreateCall(p) =>
        LET t == rtrace[p] IN
        /\ \A i \in Creates(t) : t[i].ans = "dup" =>
              /\ i = Len(t) => rpc[p] = "FindRoute"
              /\ i < Len(t) =>
                    /\ i + 1 = Len(t)
                    /\ t[i + 1].call = "FindRoute"
                    /\ t[i + 1].args = rargs[p]
                    /\ rpc[p] \in {"unlock", "done"}
                    /\ rout[p] = IF t[i + 1].ans = "found"
                                 THEN [route |-> "found", err |-> "nil"]
                                 ELSE [route |-> "nil", err |-> "error"]
        /\ \A i \in Finds(t) : i > 1 /\ t[i - 1].call = "CreateRoute" /\ t[i - 1].ans = "dup"
        /\ Cardinality(Finds(t)) <= 1

\* A second attempt met a duplicate, the lookup found no route of this owner, and
\* the call returned an error without a third attempt.
C3_Witness ==
    \E p \in Callers :
        /\ IsCreateCall(p) /\ rpc[p] = "done"
        /\ Len(rtrace[p]) = 3
        /\ rtrace[p][1].ans = "other"
        /\ rtrace[p][2].ans = "dup"
        /\ rtrace[p][3].ans = "none"
        /\ rout[p].err = "error"

\* The state part of C4.  A call that never met a duplicate is the case of "all
\* attempts fail"; a duplicate that a lookup recovers is C3's case.
C4_Attempts ==
    \A p \in Callers : IsCreateCall(p) =>
        LET t == rtrace[p] IN
        /\ Cardinality(Creates(t)) <= 3
        /\ \A i \in Creates(t) : t[i].ans = "other" /\ i < Len(t) => t[i + 1].call = "CreateRoute"
        /\ \A i \in Creates(t) : t[i].ans = "ok" =>
              /\ i = Len(t)
              /\ rout[p] = [route |-> "created", err |-> "nil"]
        /\ rpc[p] \in {"unlock", "done"} =>
              /\ rout[p].err \in {"nil", "error"}
              /\ (t # <<>> /\ t[Len(t)].ans = "other") =>
                    Cardinality(Creates(t)) = 3 /\ rout[p] = [route |-> "nil", err |-> "error"]
              /\ (\A i \in 1..Len(t) : t[i].ans \notin {"ok", "found"}) => rout[p].err = "error"

\* How far a call of createRouteForInstance has got: every step of the call moves
\* it forward, and C4_Attempts bounds it.
Rank(p) ==
    3 * Len(rtrace[p]) +
    (CASE rpc[p] = "backoff" -> 0
       [] rpc[p] \in {"CreateRoute", "FindRoute"} -> 1
       [] rpc[p] = "unlock" -> 2
       [] OTHER -> 3)

InCreateCall(p) ==
    IsCreateCall(p) /\ rpc[p] \in {"backoff", "CreateRoute", "FindRoute", "unlock"}

C4_Progress ==
    \A p \in Callers : InCreateCall(p) =>
        /\ ENABLED (\/ BackoffAttempt(p)
                    \/ \E ans \in CreateAnswers : CreateRouteReturn(p, ans)
                    \/ \E ans \in FindAnswers : FindRouteReturn(p, ans)
                    \/ Unlock(p))
        /\ (rpc'[p] # rpc[p] \/ rtrace'[p] # rtrace[p]) => Rank(p)' > Rank(p)

\* C4: an error of CreateRoute that is no duplicate triggers no lookup and is
\* retried; a call makes at most 3 attempts, returns the created route as soon as
\* an attempt succeeds, returns an error when all attempts fail, and terminates:
\* the call can always take its next step, each step moves it forward, and the
\* number of its cloud calls is bounded.
C4_BoundedRetry ==
    /\ []C4_Attempts
    /\ [][C4_Progress]_vars

\* Three attempts failed with errors that are no duplicate, and the call returned an error.
C4_Witness ==
    \E p \in Callers :
        /\ IsCreateCall(p) /\ rpc[p] = "done"
        /\ Len(rtrace[p]) = 3
        /\ \A i \in 1..3 : rtrace[p][i].call = "CreateRoute" /\ rtrace[p][i].ans = "other"
        /\ rout[p] = [route |-> "nil", err |-> "error"]

-----------------------------------------------------------------------------
(* Claims about containsRoute and conflictWithNodes *)

\* The network a text denotes is a strict sub-network of outside.
StrictSubnet(outside, s) ==
    /\ s.kind = "cidr"
    /\ s.bits > outside.Bits
    /\ MaskIP(s.ip, outside.Bits) = outside.IP

\* The text denotes the network outside.
SameNet(outside, s) ==
    s.kind = "cidr" /\ ParseCIDR(s).net = outside

ContainsDone == fcall.fn = "containsRoute" /\ fresult.done
ContainsResult == <<fresult.containsEqual, fresult.realContains, fresult.err>>

ConflictDone == fcall.fn = "conflictWithNodes" /\ fresult.done

\* The pod CIDR of a node, when it has one (and it parses).
HasPodCidr(node) == node.PodCIDR.kind = "cidr"
PodNet(node) == ParseCIDR(node.PodCIDR).net

\* C6: conflictWithNodes returns true if and only if some node with a pod CIDR has a
\* pod CIDR that strictly contains the route's destination CIDR, or one identical to
\* it while the route's owner is not the node; so a route with the CIDR and the
\* owner of a node is never in conflict with that node.
C6_ConflictWithNodes ==
    ConflictDone =>
        LET r == fcall.route
            ns == fcall.nodes
        IN /\ fresult.conflict <=>
                \E i \in 1..Len(ns) :
                    /\ HasPodCidr(ns[i])
                    /\ \/ StrictSubnet(PodNet(ns[i]), r.DestinationCIDR)
                       \/ /\ SameNet(PodNet(ns[i]), r.DestinationCIDR)
                          /\ r.ProviderId # ns[i].ProviderID
           /\ (Len(ns) = 1 /\ HasPodCidr(ns[1]) /\ SameNet(PodNet(ns[1]), r.DestinationCIDR)
                 /\ r.ProviderId = ns[1].ProviderID) => ~fresult.conflict

-----------------------------------------------------------------------------
(* Claims about syncTableRoutes *)

CreateAttempted == \E k \in 1..Len(slog) : slog[k].op = "CreateRoute"
FirstCreate == CHOOSE k \in 1..Len(slog) :
                  slog[k].op = "CreateRoute" /\ \A j \in 1..(k - 1) : slog[j].op # "CreateRoute"

\* The routes of the list that the first loop finds in conflict.
ConflictRoutes == {routes[k] : k \in {j \in 1..Len(routes) : IsConflictRoute(routes[j])}}

\* C7 as stated: no route creation is attempted while a route detected as
\* conflicting is still in the table.
C7_AsStated ==
    CreateAttempted => ConflictRoutes \cap table = {}

\* C7, amended: before the first route creation is attempted, DeleteRoute has been
\* called for every route detected as conflicting, and every such route whose
\* deletion succeeded is out of the table; a route whose deletion failed stays.
C7_DeleteAttemptedBeforeCreate ==
    CreateAttempted =>
        \A r \in ConflictRoutes :
            /\ \E k \in 1..(FirstCreate - 1) : slog[k].op = "DeleteRoute" /\ slog[k].route = r
            /\ \A k \in 1..Len(slog) :
                  (slog[k].op = "DeleteRoute" /\ slog[k].route = r /\ slog[k].ok) => r \notin table
            /\ \A k \in 1..Len(slog) :
                  (slog[k].op = "DeleteRoute" /\ slog[k].route = r /\ ~slog[k].ok) => r \in table

\* A route inside a node's pod CIDR, owned by another instance, was deleted, and
\* the node's route was then created.
C7_Witness ==
    /\ Len(slog) = 2
    /\ slog[1].op = "DeleteRoute" /\ slog[1].ok
    /\ slog[1].route = Route(BlockA1, "i-b")
    /\ slog[2].op = "CreateRoute" /\ slog[2].ok
    /\ slog[2].route = Route(HalfA, "i-a")
    /\ table = {Route(HalfA, "i-a")}

-----------------------------------------------------------------------------
(* Claims about ModelApplier.Apply *)

CallsOf(phase) == {i \in 1..Len(calls) : calls[i].phase = phase}
CallsTo(phase, op) == {i \in 1..Len(calls) : calls[i].phase = phase /\ calls[i].op = op}

\* C1: in every Apply of either applier, every cloud call of the attribute
\* phase is made, and has returned, before the first call of the
\* backend-group phase, and every call of the backend-group phase before the
\* first call of the listener phase; a phase starts only when no action of the
\* phase before it is left to run.
C1_PhaseOrder ==
    /\ \A i \in CallsOf("attr") : \A j \in CallsOf("vgroup") \cup CallsOf("listener") : i < j
    /\ \A i \in CallsOf("vgroup") : \A j \in CallsOf("listener") : i < j
    /\ apc \in {"attr", "attrCleanupTags", "attrFind", "attrUpdate"}
          => CallsOf("vgroup") \cup CallsOf("listener") = {}
    /\ apc \in {"vgPlan", "vgExec", "vgLoop", "vgAdd"} => CallsOf("listener") = {}
    /\ apc \in {"lisBuild", "lisPlan", "lisExec"}
          => \A i \in 1..Len(plan.actions) :
                "Listener" \in DOMAIN plan.actions[i]

\* The three phases made calls in one Apply of the NLB applier.
C1_Witness ==
    /\ applier = "nlb" /\ aret.set
    /\ CallsOf("attr") # {} /\ CallsOf("vgroup") # {} /\ CallsOf("listener") # {}

\* The group or listener x does not carry the ownership key of this service.
Unowned(x) == x.NamedKey # "mine"

GroupDeletesAreOwned ==
    \A i \in CallsTo("cleanup", "DeleteServerGroup") :
        ~calls[i].group.IsUserManaged /\ ~Unowned(calls[i].group)

OnlyOtherServersRemoved ==
    \A i \in CallsTo("cleanup", "BatchRemoveServers") :
        /\ calls[i].group.IsUserManaged \/ Unowned(calls[i].group)
        /\ \A s \in calls[i].servers : ~s.IsUserManaged

PlannedListenerDeletes ==
    IF apc = "lisExec"
    THEN {plan.actions[k].Listener : k \in {j \in 1..Len(plan.actions) :
                                               plan.actions[j].Action = "Delete"}}
    ELSE {}

IssuedListenerDeletes == {calls[i].listener : i \in CallsTo("listener", "DeleteListener")}

\* C8 as stated: no delete is planned or issued for an observed server group
\* or listener that is user-managed or lacks the ownership key of this
\* service, and only servers that are not user-managed are removed.
C8_AsStated ==
    /\ GroupDeletesAreOwned
    /\ OnlyOtherServersRemoved
    /\ \A r \in PlannedListenerDeletes \cup IssuedListenerDeletes : ~Unowned(r)

\* C8, amended: a server group that is user-managed or lacks the ownership key
\* is never deleted, and cleanup removes from it only servers that are not
\* user-managed; on a reused (user-managed) load balancer no delete is planned
\* or issued for a listener that lacks the ownership key.
C8_OwnershipSafety ==
    /\ GroupDeletesAreOwned
    /\ OnlyOtherServersRemoved
    /\ local.IsUserManaged
          => \A r \in PlannedListenerDeletes \cup IssuedListenerDeletes : ~Unowned(r)

\* A reused load balancer with force-override: the owned stale listener was
\* deleted and the foreign one kept, and the user-managed stale group lost only
\* the server that is not user-managed.
C8_Witness ==
    /\ applier = "nlb" /\ aret.set /\ local.IsUserManaged /\ req.forceOverride
    /\ IssuedListenerDeletes = {Sample.observedHttps}
    /\ Sample.observedOther \in {cloud.listeners[k] : k \in 1..Len(cloud.listeners)}
    /\ \E i \in CallsTo("cleanup", "BatchRemoveServers") :
          /\ calls[i].ok
          /\ calls[i].group = Sample.staleUserManaged
          /\ calls[i].servers = {Sample.ecs1}
    /\ CallsTo("cleanup", "DeleteServerGroup") = {}

\* The service is being deleted and the desired load balancer is
\* preserve-on-delete and not user-managed.
PreservedDelete == req.deleting /\ local.PreserveOnDelete /\ ~local.IsUserManaged

\* The attribute phase ran and returned no error.
AttributeSucceeded ==
    /\ RunsAttribute
    /\ apc \notin {"idle", "start", "attr", "attrCleanupTags", "attrFind", "attrUpdate"}
    /\ ~(aret.set /\ aret.remote = "nil")
    /\ calls[1].ok

\* No Delete in the attribute phase, and the tags are stripped only after the
\* deletion protection was cleared.
C9_NoDeleteCall ==
    PreservedDelete =>
        /\ CallsTo("attr", "Delete") = {}
        /\ \A i \in CallsTo("attr", "CleanupLoadBalancerTags") :
              /\ i > 1
              /\ calls[i - 1].op = "SetProtectionsOff"
              /\ calls[i - 1].ok
        /\ AttributeSucceeded =>
              /\ calls[2] = ApplyCall("attr", "SetProtectionsOff", calls[2].target, TRUE)
              /\ calls[3] = ApplyCall("attr", "CleanupLoadBalancerTags", calls[3].target, TRUE)
              /\ CallsOf("attr") = {2, 3}
              /\ cloud.lb.exists =>
                    /\ ~cloud.lb.protections
                    /\ ~HasOwnershipTag(cloud.lb.tags)

\* No step takes the load balancer out of the cloud.
C9_StillExists == PreservedDelete /\ cloud.lb.exists => cloud'.lb.exists

\* C9: when the service is being deleted and the desired load balancer is
\* preserve-on-delete and not user-managed, the attribute phase never calls
\* Delete on the load balancer; it calls SetProtectionsOff and, once that
\* succeeded, CleanupLoadBalancerTags, and a load balancer that is in the cloud
\* stays there up to the end of the pass, without its deletion protection and
\* its ownership tags when the phase succeeded.
C9_PreserveOnDelete == []C9_NoDeleteCall /\ [][C9_StillExists]_vars

\* The pass ended without error on a load balancer that is still in the cloud.
C9_Witness ==
    /\ PreservedDelete /\ aret.set /\ aret.err = <<>> /\ aret.remote = "remote"
    /\ cloud.lb.exists /\ cloud.lb.id = LbId /\ cloud.lb.tags = {}
    /\ CallsTo("attr", "CleanupLoadBalancerTags") = {3}
    /\ applier = "nlb"

\* The update of an observed load balancer: the Update call that follows the
\* listing of its tags.
ReuseUpdates ==
    {i \in CallsTo("attr", "Update") : i > 1 /\ calls[i - 1].op = "ListTagResources"}

TagsListed == \E i \in CallsTo("attr", "ListTagResources") : calls[i].ok

\* The phase failed at the reuse check: Apply returned the error, and the
\* listing of the tags was its last call.
FailedAtReuseCheck ==
    /\ apc = "done" /\ aret.set /\ aret.remote = "nil" /\ aret.err # <<>>
    /\ calls[Len(calls)].op = "ListTagResources"
    /\ CallsOf("vgroup") \cup CallsOf("listener") \cup CallsOf("cleanup") = {}

ReusedNotDeleting == local.IsUserManaged /\ ~req.deleting

\* Eligibility as the claim states it: no ownership tag and, when the service
\* has an ingress, the address or hostname of the load balancer is the bound one.
EligibleAsStated ==
    /\ ~HasOwnershipTag(cloud.lb.tags)
    /\ Len(req.ingress) > 0 =>
          \E i \in 1..Len(req.ingress) :
              \/ req.ingress[i].IP = cloud.lb.addr
              \/ req.ingress[i].Hostname = cloud.lb.addr

\* C10 as stated: Update is called on the observed load balancer only if it
\* is eligible; otherwise the phase fails and Apply runs nothing more.
C10_AsStated ==
    ReusedNotDeleting =>
        /\ ReuseUpdates # {} => EligibleAsStated
        /\ TagsListed /\ ~EligibleAsStated => FailedAtReuseCheck

\* Eligibility as the code decides it.
AddressAccepted ==
    IF applier = "nlb"
    THEN \E i \in 1..Len(req.ingress) : req.ingress[i].Hostname = cloud.lb.addr
    ELSE \/ req.externalIPType = "eip"
         \/ \E i \in 1..Len(req.ingress) : req.ingress[i].IP = cloud.lb.addr
         \/ \E i \in 1..Len(req.ingress) :
               req.ingress[i].IP = "" /\ req.ingress[i].Hostname # ""

Eligible ==
    /\ TAGKEY \notin cloud.lb.tags
    /\ ClusterTagKey \notin cloud.lb.tags
    /\ req.ingress = <<>> \/ AddressAccepted

\* C10, amended: when the desired load balancer is user-managed and the
\* service is not being deleted, Update is called on the observed load balancer
\* only if its tags hold no ownership tag and, when the service has an ingress:
\* (NLB) an ingress hostname is the DNS name of the load balancer; (CLB) the
\* external IP type is eip, or an ingress IP is the address of the load
\* balancer, or an ingress entry has a hostname and no IP.  Otherwise the phase
\* fails without calling Update and Apply returns the error without any later
\* call.
C10_ReuseEligibility ==
    ReusedNotDeleting =>
        /\ ReuseUpdates # {} => Eligible
        /\ TagsListed /\ ~Eligible => FailedAtReuseCheck
        /\ TagsListed /\ Eligible /\ apc = "done" => ReuseUpdates # {}

\* A CLB with the eip external IP type is updated although the service is
\* bound to another address.
C10_Witness ==
    /\ ReusedNotDeleting /\ applier = "clb" /\ req.externalIPType = "eip"
    /\ req.ingress = <<Ingress(OtherAddr, "")>>
    /\ \E i \in ReuseUpdates : calls[i].ok
    /\ aret.set

-----------------------------------------------------------------------------
(* Claims about the listener phase of the CLB applier *)

ListenerCallsTo(op) == {i \in 1..Len(calls) : calls[i].phase = "listener" /\ calls[i].op = op}

\* C11: in the listener phase of the CLB applier every listener delete call is
\* issued before any listener create call and before any listener update
\* call, and every listener create call before any listener update call.
C11_DeleteCreateUpdate ==
    applier = "clb" =>
        /\ \A i \in ListenerCallsTo("DeleteListener") :
               \A j \in ListenerCallsTo("CreateListener") \cup ListenerCallsTo("UpdateListener") :
                   i < j
        /\ \A i \in ListenerCallsTo("CreateListener") :
               \A j \in ListenerCallsTo("UpdateListener") : i < j

\* A CLB listener phase that deleted, created and updated listeners.
C11_Witness ==
    /\ applier = "clb" /\ aret.set
    /\ ListenerCallsTo("DeleteListener") # {}
    /\ ListenerCallsTo("CreateListener") # {}
    /\ ListenerCallsTo("UpdateListener") # {}

HTTPSCalls(op) == {i \in ListenerCallsTo(op) : calls[i].listener.ListenerProtocol = "https"}

\* The sequences p and q hold the same elements, each as often.
SameActions(p, q) ==
    /\ Len(p) = Len(q)
    /\ \A i \in 1..Len(p) :
         Cardinality({j \in 1..Len(p) : p[j] = p[i]}) = Cardinality({j \in 1..Len(q) : q[j] = p[i]})

\* C12: in the listener phase of the CLB applier, whatever the order the
\* actions were built in, every create of an HTTPS listener is executed before
\* every create of a listener of another protocol, every delete of an HTTPS
\* listener after every delete of a listener of another protocol, and the
\* actions put in order are the actions built: none dropped, none twice.
C12_HTTPSOrder ==
    applier = "clb" =>
        /\ \A i \in HTTPSCalls("CreateListener") :
               \A j \in ListenerCallsTo("CreateListener") \ HTTPSCalls("CreateListener") : i < j
        /\ \A i \in HTTPSCalls("DeleteListener") :
               \A j \in ListenerCallsTo("DeleteListener") \ HTTPSCalls("DeleteListener") : j < i
        /\ apc = "lisExec" =>
               LET b == buildActionsForListeners(local, remote.listeners)
               IN SameActions(plan.actions, b.deleteActions \o b.createActions \o b.updateActions)

\* A CLB listener phase that was given a listener of another protocol ahead
\* of two HTTPS listeners, and that created and deleted listeners of both kinds.
C12_Witness ==
    /\ applier = "clb" /\ aret.set
    /\ Len(given.local.listeners) = 3
    /\ given.local.listeners[1].ListenerProtocol # "https"
    /\ Cardinality(HTTPSCalls("CreateListener")) = 2
    /\ ListenerCallsTo("CreateListener") \ HTTPSCalls("CreateListener") # {}
    /\ Cardinality(HTTPSCalls("DeleteListener")) = 2
    /\ ListenerCallsTo("DeleteListener") \ HTTPSCalls("DeleteListener") # {}

-----------------------------------------------------------------------------
(* Claims about failures and the errors Apply returns *)

\* The creations of a backend group Apply attempted, and those that succeeded:
\* the CLB applier creates the group and then adds its backends.
GroupCreates ==
    CallsTo("vgroup", "CreateServerGroup") \cup CallsTo("vgroup", "CreateVServerGroup")

CreatedOk(i) ==
    /\ calls[i].ok
    /\ applier = "clb" =>
          /\ i < Len(calls)
          /\ calls[i + 1].op = "BatchAddVServerGroupBackendServers"
          /\ calls[i + 1].ok

\* Apply returned from a backend-group phase that attempted two creations, of
\* which exactly one failed, and nothing else failed in the phase.
OneOfTwoCreationsFailed ==
    /\ apc = "done" /\ aret.set
    /\ Cardinality(GroupCreates) = 2
    /\ Cardinality({i \in GroupCreates : CreatedOk(i)}) = 1
    /\ \A i \in CallsOf("vgroup") :
          calls[i].op \in {"UpdateServerGroup", "UpdateVServerGroup"} => calls[i].ok

\* C13: when the backend-group phase attempts two creations and exactly one
\* fails, Apply returns the remote model, the group created is in its
\* backend-group collection with the identity the cloud gave it, and the
\* aggregate of the phase holds one error, the one of the failed group.
C13_PartialFailureIsolation ==
    OneOfTwoCreationsFailed =>
        LET good == CHOOSE i \in GroupCreates : CreatedOk(i)
            bad == CHOOSE i \in GroupCreates : ~CreatedOk(i)
        IN /\ aret.remote = "remote"
           /\ \E k \in 1..Len(remote.groups) :
                 LET g == Deref(local, remote.groups[k])
                 IN /\ g.ServerGroupName = calls[good].target
                    /\ g.ServerGroupId # ""
                    /\ \E c \in 1..Len(cloud.groups) :
                          /\ cloud.groups[c].ServerGroupId = g.ServerGroupId
                          /\ cloud.groups[c].ServerGroupName = g.ServerGroupName
           /\ Len(plan.errs) = 1
           /\ plan.errs[1][2] = calls[bad].target
           /\ aret.err = errs
           /\ errs[Len(errs)] = "reconcile backends"

\* The first of two creations of the CLB applier failed and the second
\* succeeded.
C13_Witness ==
    /\ applier = "clb" /\ OneOfTwoCreationsFailed
    /\ \E i, j \in GroupCreates : i < j /\ ~CreatedOk(i) /\ CreatedOk(j)

\* The create, update and delete actions of the attribute phase and of the
\* backend-group phase that failed.
FailedAttributeActions ==
    {i \in CallsOf("attr") : ~calls[i].ok /\ calls[i].op \in {"Create", "Update", "Delete"}}

FailedGroupActions == {i \in CallsOf("vgroup") : ~calls[i].ok}

LastError == IF aret.err = <<>> THEN "" ELSE aret.err[Len(aret.err)]

\* C14 as stated: after the failure of an action of the attribute phase or of
\* the backend-group phase Apply still runs the later phases: it returns
\* neither (nil, err) nor from the backend-group phase.
C14_AsStated ==
    (aret.set /\ FailedAttributeActions \cup FailedGroupActions # {}) =>
        /\ aret.remote = "remote"
        /\ LastError # "reconcile backends"

\* C14: a failed action of the attribute phase ends Apply with (nil, err), but
\* for an Update whose error is an aggregate, which is collected and returned
\* first among the errors of the pass.  A failed action of the backend-group
\* phase does not keep the other actions of the phase from running, and the
\* errors of the phase are returned together; but Apply then returns, with
\* the remote model, without a call of the listener phase or of the cleanup.
\* A phase that fails without a failed call (a user-managed group of another
\* type, a listener whose group is not found) makes no call and ends Apply too.
C14_Propagation ==
    /\ \A i \in FailedAttributeActions :
          \/ i = Len(calls) /\ apc = "done" /\ aret.remote = "nil" /\ Len(aret.err) = 1
          \/ calls[i].op = "Update" /\ errs # <<>> /\ errs[1] = "update attribute"
    /\ (errs # <<>> /\ errs[1] = "update attribute" /\ aret.set) =>
          aret.remote = "remote" /\ aret.err[1] = "update attribute"
    /\ FailedGroupActions # {} =>
          /\ CallsOf("listener") \cup CallsOf("cleanup") = {}
          /\ apc \in {"vgExec", "vgLoop", "vgAdd", "done"}
          /\ apc = "done" =>
                /\ aret.remote = "remote" /\ LastError = "reconcile backends"
                /\ Len(plan.errs) = Cardinality(FailedGroupActions)
                /\ applier = "nlb" => plan.actions = <<>>
                /\ applier = "clb" => ai > Len(local.groups)
    /\ (aret.set /\ (\A i \in 1..Len(calls) : calls[i].ok)
          /\ LastError \in {"reconcile backends", "reconcile listeners", "update lb listeners"}) =>
          /\ CallsOf("cleanup") = {}
          /\ CallsOf("listener") = {}
          /\ LastError = "reconcile backends" => CallsOf("vgroup") = {}

\* The first creation of a group failed, the second was attempted all the
\* same, and Apply returned from the backend-group phase.
C14_Witness ==
    /\ apc = "done" /\ aret.set
    /\ \E i \in FailedGroupActions : \E j \in GroupCreates : i < j
    /\ LastError = "reconcile backends"

-----------------------------------------------------------------------------
(* Claims about a second call of Apply *)

\* The calls of the second call of Apply, and those among them that create
\* or delete a load balancer, a backend group or a listener.
SecondCalls == IF given.pass = 2 THEN (given.from + 1)..Len(calls) ELSE {}

CreatesOrDeletes ==
    {i \in SecondCalls :
        calls[i].op \in {"Create", "Delete", "CreateServerGroup", "CreateVServerGroup",
                         "DeleteServerGroup", "CreateListener", "DeleteListener"}}

\* The resources of the cloud: the load balancer, the backend groups and the
\* listeners, by identity.
Resources(c) ==
    [lb |-> c.lb.id,
     groups |-> {c.groups[k].ServerGroupId : k \in 1..Len(c.groups)},
     listeners |-> {c.listeners[k].ListenerId : k \in 1..Len(c.listeners)}]

FirstNamed(c, name) ==
    LET hits == {k \in 1..Len(c.groups) : c.groups[k].ServerGroupName = name}
    IN IF hits = {} THEN 0 ELSE CHOOSE k \in hits : \A j \in hits : k <= j

SecondFindsItsGroups ==
    \A i \in 1..Len(given.second.groups) :
        LET l == given.second.groups[i]
            k == FirstNamed(given.cloud, l.ServerGroupName)
        IN IF l.ServerGroupId # ""
           THEN \E j \in 1..Len(given.cloud.groups) :
                    given.cloud.groups[j].ServerGroupId = l.ServerGroupId
           ELSE (applier = "nlb" /\ k # 0 /\ l.ServerGroupType # "") =>
                    given.cloud.groups[k].ServerGroupType = l.ServerGroupType

IgnorableCodes ==
    IF bop = "batchAddRoutes"
    THEN {"VPC_ROUTE_ENTRY_CIDR_BLOCK_DUPLICATE", "VPC_ROUTE_ENTRY_STATUS_ERROR"}
    ELSE {"VPC_ROUTER_ENTRY_NOT_EXIST"}

\* What is done for a status that is taken as a success: no requeue; a
\* created route sets the node's network condition and, unless that failed,
\* is cached and its rate limiter forgotten; a deleted route leaves the cache
\* and its rate limiter is forgotten.
HandledAsSuccess(e) ==
    /\ ~e.requeued
    /\ IF bop = "batchAddRoutes"
       THEN /\ e.condition \in {"ok", "err"}
            /\ e.forgotten <=> e.condition = "ok"
            /\ e.condition = "ok" => e.cached
       ELSE e.forgotten /\ ~e.cached /\ e.condition = "none"

\* C16: a status entry failing with a code the operation ignores is handled
\* as a successful entry is and never requeued; an entry failing with any
\* other code requeues its node; every entry of the statuses is handled, in
\* order, whatever failed before it, and the batch call then returns nil.
C16_IgnorableCodes ==
    /\ Len(blog) <= Len(bstatuses)
    /\ \A i \in 1..Len(blog) :
          LET e == blog[i]
          IN /\ e.status = bstatuses[i]
             /\ (~e.status.Failed \/ e.status.FailedCode \in IgnorableCodes)
                    => HandledAsSuccess(e)
             /\ (e.status.Failed /\ e.status.FailedCode \notin IgnorableCodes)
                    => e.requeued /\ ~e.forgotten /\ e.condition = "none"
    /\ (bpc = "done" /\ bstatuses # <<>>) =>
          Len(blog) = Len(bstatuses) /\ bret = "nil"

\* batchAddRoutes returned after an entry with another code was requeued and
\* the entry after it, a duplicate, was cached as a created route is.
C16_Witness ==
    /\ bop = "batchAddRoutes" /\ bpc = "done" /\ bret = "nil" /\ Len(blog) = 2
    /\ blog[1].status.FailedCode = "QuotaExceeded.Route" /\ blog[1].requeued
    /\ blog[2].status.FailedCode = "VPC_ROUTE_ENTRY_CIDR_BLOCK_DUPLICATE"
    /\ blog[2].status.Failed /\ blog[2].forgotten /\ blog[2].cached

\* The attribute phase of a service that is being deleted makes no Create and
\* no Update call, and on a reused load balancer no call that deletes it,
\* clears its protection or strips its tags.
C17_NoCreateNoUpdate ==
    req.deleting =>
        /\ CallsTo("attr", "Create") \cup CallsTo("attr", "Update") = {}
        /\ local.IsUserManaged =>
              CallsTo("attr", "Delete") \cup CallsTo("attr", "SetProtectionsOff")
                  \cup CallsTo("attr", "CleanupLoadBalancerTags") = {}

\* The attribute phase leaves the remote model and the load balancer of the
\* cloud as they are when the load balancer is reused.
C17_RemoteKept ==
    (req.deleting /\ local.IsUserManaged /\ apc = "attr") =>
        /\ remote' = remote
        /\ cloud' = cloud
        /\ calls' = calls

\* C17: when the service is marked for deletion the attribute phase never
\* calls Create or Update on the load balancer, whatever is observed and
\* desired; a reused (user-managed) load balancer is neither deleted nor
\* stripped of its tags, and the identity of the remote model stays as it is.
C17_DeletionPrecedence == []C17_NoCreateNoUpdate /\ [][C17_RemoteKept]_vars

\* The attribute phase ran for a deleted service on a reused load balancer
\* that is in the cloud, and Apply ended with the identity still in the
\* remote model.
C17_Witness ==
    /\ req.deleting /\ local.IsUserManaged /\ RunsAttribute
    /\ apc = "done" /\ aret.set /\ aret.remote = "remote"
    /\ remote.id = LbId /\ cloud.lb.exists /\ cloud.lb.id = LbId
    /\ CallsOf("attr") = {}

\* The observed groups cleanup has gone through that no desired group has
\* the identity of.
UnmatchedCleaned ==
    {r \in {Deref(local, remote.groups[j]) : j \in 1..(ai - 1)} :
        \A i \in 1..Len(local.groups) : local.groups[i].ServerGroupId # r.ServerGroupId}

CloudGroupIds(c) == {c.groups[j].ServerGroupId : j \in 1..Len(c.groups)}

NeedsLoadBalancer(c) ==
    \/ c.phase = "listener"
    \/ c.phase = "vgroup" /\ c.op = "CreateVServerGroup"

\* A call that needs the load balancer is made with the identity of the load
\* balancer of the cloud in the remote model.
C19_IssuedWithIdentity ==
    (Len(calls') = Len(calls) + 1 /\ NeedsLoadBalancer(calls'[Len(calls')])) =>
        /\ remote.id # ""
        /\ remote.id = cloud.lb.id
        /\ cloud.lb.exists

\* After Create the remote model has the identity Create assigned and Find is
\* the next call; a failure of Create or of Find is the last call of Apply,
\* which returns the error and nothing else.
C19_CreateThenFind ==
    /\ \A i \in CallsTo("attr", "Create") :
          IF calls[i].ok
          THEN /\ local.LoadBalancerId = LbId
               /\ remote.id = LbId
               /\ IF i = Len(calls) THEN apc = "attrFind"
                  ELSE calls[i + 1] = ApplyCall("attr", "Find", LbId, calls[i + 1].ok)
          ELSE /\ i = Len(calls)
               /\ apc = "done" /\ aret.set /\ aret.remote = "nil" /\ aret.err # <<>>
    /\ \A i \in CallsTo("attr", "Find") :
          /\ i > 1 /\ calls[i - 1].op = "Create" /\ calls[i - 1].ok
          /\ ~calls[i].ok =>
                /\ i = Len(calls)
                /\ apc = "done" /\ aret.set /\ aret.remote = "nil" /\ aret.err # <<>>

\* C19: no backend-group creation of the CLB applier and no listener action
\* of either applier is issued with an empty load-balancer identity; when the
\* attribute phase creates the load balancer, the remote model takes the
\* identity the creation assigned and is read again from the cloud (Find)
\* before a later phase starts, and when the creation or the reading fails
\* no later phase runs.
C19_IdentityBeforeLaterPhases == []C19_CreateThenFind /\ [][C19_IssuedWithIdentity]_vars

\* The CLB applier created the load balancer, read it again, and then
\* created a backend group and a listener.
C19_Witness ==
    /\ applier = "clb" /\ apc = "done" /\ remote.id = LbId
    /\ \E i \in CallsTo("attr", "Create") :
          /\ calls[i].ok /\ calls[i + 1].op = "Find" /\ calls[i + 1].ok
          /\ \E j \in CallsTo("vgroup", "CreateVServerGroup") : j > i + 1 /\ calls[j].ok
          /\ \E j \in CallsTo("listener", "CreateListener") : j > i + 1 /\ calls[j].ok

\* The observed group the claim matches the desired group d to: the first
\* group of the cloud with the identity of d when d has one, else the first
\* with its name; 0 when there is none.
ObservedMatch(d) ==
    LET hits == {k \in 1..Len(cloud.groups) :
                    IF d.ServerGroupId # ""
                    THEN cloud.groups[k].ServerGroupId = d.ServerGroupId
                    ELSE cloud.groups[k].ServerGroupName = d.ServerGroupName}
    IN IF hits = {} THEN 0 ELSE CHOOSE k \in hits : \A j \in hits : k <= j

\* The desired group j, as Apply was given it, matches an observed group of
\* another type.
TypeChanged(j) ==
    LET d == given.local.groups[j]
        k == ObservedMatch(d)
    IN k # 0 /\ d.ServerGroupType # ""
             /\ d.ServerGroupType # cloud.groups[k].ServerGroupType

\* No desired group before j has the key of j: j is not skipped as a group
\* that was planned already.
FirstWithKey(j) ==
    \A i \in 1..(j - 1) : sgKey(given.local.groups[i]) # sgKey(given.local.groups[j])

PlannedFor(j, action) == {k \in 1..Len(plan.actions) :
                            plan.actions[k].Local = j /\ plan.actions[k].Action = action}

\* What is planned for the desired groups the loop has gone through.
C20_Planned ==
    (applier = "nlb" /\ apc = "vgPlan" /\ given.pass = 1) =>
        \A j \in 1..(ai - 1) :
            LET d == given.local.groups[j]
                k == ObservedMatch(d)
            IN /\ (k # 0 /\ d.ServerGroupId = "") =>
                      local.groups[j].ServerGroupId = cloud.groups[k].ServerGroupId
               /\ (k # 0 /\ ~TypeChanged(j) /\ FirstWithKey(j)) =>
                      \E n \in PlannedFor(j, "Update") :
                          plan.actions[n].Remote = cloud.groups[k]
               /\ TypeChanged(j) =>
                      /\ PlannedFor(j, "Update") = {}
                      /\ ~(d.IsUserManaged /\ FirstWithKey(j))
                      /\ FirstWithKey(j) =>
                            /\ \E n \in PlannedFor(j, "CreateAndAddBackendServers") :
                                  /\ plan.actions[n].Remote = local.groups[j]
                                  /\ plan.actions[n].Remote # cloud.groups[k]
                            /\ \E n \in 1..Len(remote.groups) : remote.groups[n] = Pointer(j)

\* The step for a user-managed group of another type ends Apply with an
\* error; nothing is planned and no call is made.
C20_UserManagedError ==
    (/\ applier = "nlb" /\ apc = "vgPlan" /\ given.pass = 1
     /\ ai <= Len(local.groups)
     /\ TypeChanged(ai) /\ given.local.groups[ai].IsUserManaged /\ FirstWithKey(ai)) =>
        /\ apc' = "done" /\ aret'.set /\ aret'.err # <<>>
        /\ aret'.err[Len(aret'.err)] = "reconcile backends"
        /\ plan' = plan /\ calls' = calls /\ cloud' = cloud

GroupPhaseOver ==
    /\ given.pass = 1
    /\ \E i \in CallsTo("build", "BuildRemoteModel") : calls[i].target = "groups" /\ calls[i].ok
    /\ apc \notin {"vgPlan", "vgExec", "vgLoop", "vgAdd"}

\* A create or an update was executed for the desired group j, or for the
\* desired group before it that it repeats.
Executed(j) ==
    \E i \in CallsOf("vgroup") :
        /\ calls[i].op \in {"CreateServerGroup", "CreateVServerGroup",
                            "UpdateServerGroup", "UpdateVServerGroup"}
        /\ calls[i].target \in {local.groups[j].ServerGroupName, local.groups[j].ServerGroupId}

\* The desired group j of the NLB applier is user-managed and of another type
\* than the observed group it matches.
UserManagedTypeConflict(j) ==
    /\ applier = "nlb"
    /\ TypeChanged(j) /\ given.local.groups[j].IsUserManaged /\ FirstWithKey(j)

\* The claim as it stands: whatever fails for a group, a create or an update
\* is executed for every other group.
C21_AsStated ==
    GroupPhaseOver =>
        \A j \in 1..Len(local.groups) : Executed(j) \/ UserManagedTypeConflict(j)

\* C21: the failure of the create or update of one desired backend group
\* does not keep the phase, in either applier, from executing the create or
\* update of every other desired group; but a user-managed group of another
\* type than its observed group ends the phase of the NLB applier before any
\* action is executed, those planned for the other groups included.
C21_GroupFailureIsolation ==
    GroupPhaseOver =>
        IF \E j \in 1..Len(local.groups) : UserManagedTypeConflict(j)
        THEN /\ CallsOf("vgroup") = {}
             /\ apc = "done" /\ aret.set /\ LastError = "reconcile backends"
        ELSE \A j \in 1..Len(local.groups) : Executed(j)

\* The phase is over; the action of a group failed and the action of
\* another group, issued after it, succeeded.
C21_Witness ==
    /\ GroupPhaseOver
    /\ \E i, j \in CallsOf("vgroup") :
          /\ i < j /\ ~calls[i].ok /\ calls[j].ok
          /\ calls[i].op \in {"CreateServerGroup", "CreateVServerGroup"}
          /\ calls[j].op \in {"CreateServerGroup", "CreateVServerGroup"}
          /\ calls[i].target # calls[j].target

\* The updates of the backend-group phase, by the identity of the observed
\* group, and the creations that succeeded, by the name of the group.
GroupUpdatesOf(id) ==
    {i \in CallsOf("vgroup") :
        calls[i].op \in {"UpdateServerGroup", "UpdateVServerGroup"} /\ calls[i].target = id}

GroupCreationsOf(name) ==
    {i \in CallsOf("vgroup") :
        /\ calls[i].op \in {"CreateServerGroup", "CreateVServerGroup"}
        /\ calls[i].target = name /\ calls[i].ok}

\* C22: in a pass no observed backend group is the target of two update
\* actions and no group name is created twice, whatever the desired set
\* repeats; stated for the passes in which no action of the phase failed, so
\* that no second action is the repetition of a failed one.
C22_NoDoublePlanning ==
    (given.pass = 1 /\ FailedGroupActions = {}) =>
        /\ \A g \in CloudGroupIds(given.cloud) : Cardinality(GroupUpdatesOf(g)) <= 1
        /\ \A j \in 1..Len(given.local.groups) :
              Cardinality(GroupCreationsOf(given.local.groups[j].ServerGroupName)) <= 1

\* The desired groups that bear the name the desired listener l refers to.
GroupsNamed(l) ==
    {k \in 1..Len(local.groups) : local.groups[k].ServerGroupName = l.ServerGroupName}

Unresolvable(l) == l.ServerGroupId = "" /\ GroupsNamed(l) = {}

\* The step of the NLB applier that resolves the desired listeners and plans
\* the actions: with a listener whose group no desired group bears the name
\* of, the phase fails and nothing is planned; else every listener without
\* identity of a group takes the one of the first desired group of that name,
\* and only then are the actions planned.
C23_Resolution ==
    (applier = "nlb" /\ apc = "lisPlan" /\ ~(local.IsUserManaged /\ ~req.forceOverride)) =>
        IF \E i \in 1..Len(local.listeners) : Unresolvable(local.listeners[i])
        THEN /\ apc' = "done" /\ aret'.set /\ aret'.remote = "remote"
             /\ aret'.err # <<>> /\ aret'.err[Len(aret'.err)] = "reconcile listeners"
             /\ plan' = plan /\ calls' = calls /\ cloud' = cloud
        ELSE /\ apc' = "lisExec"
             /\ Len(local'.listeners) = Len(local.listeners)
             /\ \A i \in 1..Len(local.listeners) :
                   LET l == local.listeners[i]
                       first == CHOOSE k \in GroupsNamed(l) : \A j \in GroupsNamed(l) : k <= j
                   IN /\ local'.listeners[i].ServerGroupId # ""
                      /\ local'.listeners[i].ServerGroupId =
                             IF l.ServerGroupId # "" THEN l.ServerGroupId
                             ELSE local.groups[first].ServerGroupId
             /\ \A k \in 1..Len(plan'.actions) :
                   plan'.actions[k].Action # "Delete" =>
                       local'.listeners[plan'.actions[k].Local].ServerGroupId # ""

\* No listener action of the NLB applier is executed while a desired listener
\* is without the identity of a group.
C23_NoActionUnresolved ==
    (applier = "nlb" /\ CallsOf("listener") # {}) =>
        \A i \in 1..Len(local.listeners) : local.listeners[i].ServerGroupId # ""

\* C23: in the listener phase of the NLB applier, before any listener action
\* is planned, every desired listener without a backend-group identity takes
\* the identity of the desired group of the same name; when no desired group
\* has that name the phase fails and no listener create, update or delete is
\* executed; after the resolution every desired listener has a non-empty
\* backend-group identity.
C23_ListenerResolution == []C23_NoActionUnresolved /\ [][C23_Resolution]_vars

\* A listener given without the identity of a group was created with the
\* identity of the group the pass created before it.
C23_Witness ==
    /\ applier = "nlb" /\ given.pass = 1
    /\ \E i \in 1..Len(local.listeners) :
          /\ given.local.listeners[i].ServerGroupId = ""
          /\ local.listeners[i].ServerGroupId \in {NewGroupIds[k] : k \in 1..Len(NewGroupIds)}
    /\ \E c \in CallsTo("listener", "CreateListener") : calls[c].ok

\* The match of the claim: the same protocol and the same port, or for
\* listeners of a port range the same range.
SameProtocolAndPort(l, r) ==
    /\ l.ListenerProtocol = r.ListenerProtocol
    /\ IF l.ListenerPort # 0 \/ r.ListenerPort # 0
       THEN l.ListenerPort = r.ListenerPort
       ELSE l.StartPort = r.StartPort /\ l.EndPort = r.EndPort

\* The actions a plan holds on the observed listener r, and for the desired
\* listener i.
PlannedOn(acts, action, r) ==
    {k \in 1..Len(acts) : acts[k].Action = action /\ acts[k].Listener = r}

PlannedForListener(acts, i) ==
    {k \in 1..Len(acts) : acts[k].Action # "Delete" /\ acts[k].Local = i}

\* The plan of the listener phase of the NLB applier.
C24_Plan ==
    (applier = "nlb" /\ apc = "lisPlan" /\ apc' = "lisExec") =>
        LET acts == plan'.actions
            ls == local.listeners
            rls == remote.listeners
            Matched(r) == \E i \in 1..Len(ls) : SameProtocolAndPort(ls[i], r)
        IN /\ \A j \in 1..Len(rls) :
                 /\ PlannedOn(acts, "Delete", rls[j]) # {} <=>
                        /\ ~Matched(rls[j])
                        /\ local.IsUserManaged => rls[j].NamedKey = "mine"
                 /\ Cardinality(PlannedOn(acts, "Delete", rls[j])) <= 1
                 /\ ~(PlannedOn(acts, "Delete", rls[j]) # {}
                        /\ PlannedOn(acts, "Update", rls[j]) # {})
           /\ \A i \in 1..Len(ls) :
                 /\ Cardinality(PlannedForListener(acts, i)) = 1
                 /\ \A k \in PlannedForListener(acts, i) :
                       IF \E j \in 1..Len(rls) : SameProtocolAndPort(ls[i], rls[j])
                       THEN /\ acts[k].Action = "Update"
                            /\ SameProtocolAndPort(ls[i], acts[k].Listener)
                            /\ \E j \in 1..Len(rls) : rls[j] = acts[k].Listener
                       ELSE acts[k].Action = "Create"
           /\ \A k \in 1..Len(acts) :
                 \/ acts[k].Action = "Delete" /\ \E j \in 1..Len(rls) : rls[j] = acts[k].Listener
                 \/ acts[k].Action # "Delete" /\ acts[k].Local \in 1..Len(ls)

\* C24: the listener plan of the NLB applier matches by protocol and port
\* (or port range), not by identity: an observed listener is planned for
\* deletion if and only if no desired listener has its protocol and port
\* and, on a reused load balancer, it carries the key of this service; every
\* desired listener is planned exactly once, as an update when an observed
\* listener matches it and as a creation otherwise; no observed listener is
\* both deleted and updated.
C24_ListenerPlan == [][C24_Plan]_vars

\* On a reused load balancer the plan deletes an observed listener of the
\* service, leaves alone one that is not of the service, and creates the
\* desired listener.
C24_Witness ==
    /\ applier = "nlb" /\ apc = "lisExec" /\ local.IsUserManaged
    /\ Len(plan.actions) = 2
    /\ \E k \in 1..2 : plan.actions[k].Action = "Delete" /\ plan.actions[k].Listener.NamedKey = "mine"
    /\ \E k \in 1..2 : plan.actions[k].Action = "Create"
    /\ \E j \in 1..Len(remote.listeners) :
          /\ remote.listeners[j].NamedKey # "mine"
          /\ PlannedOn(plan.actions, "Delete", remote.listeners[j]) = {}
          /\ PlannedOn(plan.actions, "Update", remote.listeners[j]) = {}

\* Every address of the network inner is an address of the network outer:
\* inner is contained in outer or equal to it.
Within(outer, inner) ==
    \A a \in Addrs : IPNetContains(inner, a) => IPNetContains(outer, a)

\* The route is in the configured cluster CIDR; with no cluster CIDR
\* configured every route is.
InClusterCIDR(route) ==
    \/ clusterCIDR.kind = "empty"
    \/ /\ ~ParseCIDR(route.DestinationCIDR).err
       /\ Within(ParseCIDR(clusterCIDR).net, ParseCIDR(route.DestinationCIDR).net)

DeletedRoutes == {slog[k].route : k \in {j \in 1..Len(slog) : slog[j].op = "DeleteRoute"}}

\* C25: syncTableRoutes deletes a route only if its destination is contained
\* in or equal to the configured cluster CIDR and the route conflicts with a
\* node; a route outside the cluster CIDR and a route whose destination does
\* not parse stay in the table; such a route does not end the call, which
\* goes through every route and every node and returns nil.
C25_DeleteOnlyInScope ==
    /\ \A r \in DeletedRoutes :
          /\ ~ParseCIDR(r.DestinationCIDR).err
          /\ InClusterCIDR(r)
          /\ conflictWithNodes(r, nodes)
    /\ \A r \in Range(routes) :
          (ParseCIDR(r.DestinationCIDR).err \/ ~InClusterCIDR(r)) => r \in table
    /\ \A k \in 1..(ri - 1) :
          (InClusterCIDR(routes[k]) /\ conflictWithNodes(routes[k], nodes)) =>
              routes[k] \in DeletedRoutes
    /\ spc = "done" =>
          \/ sret = "nil" /\ ri = Len(routes) + 1 /\ ni = Len(nodes) + 1
          \/ sret = "error" /\ ri = 1 /\ ni = 1 /\ slog = <<>>

\* The call returned nil after it skipped a route that does not parse, kept
\* a route in conflict with a node that is outside the cluster CIDR, and
\* went on to the nodes.
C25_Witness ==
    /\ spc = "done" /\ sret = "nil" /\ clusterCIDR = HalfA
    /\ Len(routes) = 2 /\ Len(nodes) > 0
    /\ ParseCIDR(routes[1].DestinationCIDR).err
    /\ ~InClusterCIDR(routes[2]) /\ conflictWithNodes(routes[2], nodes)
    /\ Range(routes) \subseteq table

ListenerCalls(cs) == SelectSeq(cs, LAMBDA c : c.phase = "listener")

FailedListenerCalls(cs) == {i \in 1..Len(ListenerCalls(cs)) : ~ListenerCalls(cs)[i].ok}

\* The listener actions planned for the phase under way: the CLB applier
\* keeps them in plan.actions, the NLB executor takes them out of it as they
\* run, and they are the plan of the desired against the observed listeners.
PlannedListenerActions ==
    IF applier = "clb" THEN plan.actions
    ELSE ListenerDeletes(local, remote.listeners)
             \o ListenerUpserts(local.listeners, remote.listeners)

\* The step that ends the execution of the listener actions.
ListenerExecutionEnds == apc = "lisExec" /\ apc' # "lisExec"

\* Every planned listener action was executed when the phase ends.
AllListenerActionsExecuted ==
    /\ Len(ListenerCalls(calls')) = Len(PlannedListenerActions)
    /\ \A k \in 1..Len(PlannedListenerActions) :
          \E i \in 1..Len(ListenerCalls(calls')) :
              /\ ListenerCalls(calls')[i].listener = PlannedListenerActions[k].Listener
              /\ ListenerCalls(calls')[i].op =
                     ListenerCall(PlannedListenerActions[k], "ok").op

\* The statement as written: in either applier every planned listener action
\* is executed whatever fails.
C26_AsStated == [][ListenerExecutionEnds => AllListenerActionsExecuted]_vars

C26_Step ==
    ListenerExecutionEnds =>
        LET lc == ListenerCalls(calls')
            failed == FailedListenerCalls(calls')
        IN /\ failed = {} => AllListenerActionsExecuted /\ aret' = aret
           /\ failed # {} =>
                 /\ apc' = "done" /\ aret'.set
                 /\ Len(aret'.err) = Len(errs) + 1
           /\ applier = "nlb" =>
                 /\ AllListenerActionsExecuted
                 /\ Len(plan.errs) = Cardinality(failed)
           /\ applier = "clb" =>
                 /\ failed \subseteq {Len(lc)}
                 /\ Len(lc) <= Len(plan.actions)
                 /\ \A i \in 1..Len(lc) : lc[i].listener = plan.actions[i].Listener

\* C26: in the NLB applier the failure of one listener action cancels no
\* other: every planned listener action is executed in the pass and the
\* failures come back together as one error.  In the CLB applier the actions
\* run one at a time and the first failure ends the phase: the actions after
\* it are not executed and that one error is returned.
C26_ListenerFailures == [][C26_Step]_vars

\* The CLB applier returned after a failed listener action with planned
\* actions left that it did not execute.
C26_Witness ==
    /\ applier = "clb" /\ apc = "done" /\ aret.set
    /\ FailedListenerCalls(calls) = {Len(ListenerCalls(calls))}
    /\ Len(ListenerCalls(calls)) < Len(plan.actions)

\* The observed group the desired group d matched when Apply was called: the
\* first group the cloud had with the identity of d when d has one, else the
\* first with its name; 0 when there was none.
MatchAtCall(d) ==
    LET hits == {k \in 1..Len(given.cloud.groups) :
                    IF d.ServerGroupId # ""
                    THEN given.cloud.groups[k].ServerGroupId = d.ServerGroupId
                    ELSE given.cloud.groups[k].ServerGroupName = d.ServerGroupName}
    IN IF hits = {} THEN 0 ELSE CHOOSE k \in hits : \A j \in hits : k <= j

\* The desired group j was given with a type that is not the type of the
\* observed group it matched, which is a group of this service.
TypeChangeOfOwned(j) ==
    LET d == given.local.groups[j]
        k == MatchAtCall(d)
    IN /\ k # 0 /\ d.ServerGroupType # ""
       /\ d.ServerGroupType # given.cloud.groups[k].ServerGroupType
       /\ isVGroupManagedByMyService(given.cloud.groups[k])
       /\ FirstWithKey(j)

GroupsInCloudNamed(c, name) == {k \in 1..Len(c.groups) : c.groups[k].ServerGroupName = name}

\* The first pass of the NLB applier ended without error on a load balancer
\* that is not preserve-on-delete.
SuccessfulPass ==
    /\ applier = "nlb" /\ given.pass = 1 /\ ~local.PreserveOnDelete
    /\ apc = "done" /\ aret.set /\ aret.err = <<>>

AppendedGroups ==
    {Deref(local, remote.groups[k]) :
        k \in (Len(given.cloud.groups) + 1)..Len(remote.groups)}

\* The group is in the cloud under the identity it carries.
InCloud(g) ==
    /\ g.ServerGroupId # ""
    /\ \E k \in 1..Len(cloud.groups) :
          /\ cloud.groups[k].ServerGroupId = g.ServerGroupId
          /\ cloud.groups[k].ServerGroupName = g.ServerGroupName
          /\ cloud.groups[k].ServerGroupType = g.ServerGroupType

GroupPhaseUnderWay == apc \in {"vgPlan", "vgExec", "vgLoop", "vgAdd"}

\* The statement as written: in either applier the groups the remote model
\* gained are in the cloud once the phase is over.
C28_AsStated ==
    (given.pass = 1 /\ ~GroupPhaseUnderWay) => \A g \in AppendedGroups : InCloud(g)

\* C28: in the CLB applier the remote model gains a group only after its
\* creation and the addition of its backends succeeded: every group appended
\* is in the cloud under the identity it carries.  In the NLB applier the
\* desired group is appended when its creation is planned: once the phase is
\* over an appended group is in the cloud under its identity if and only if
\* a creation of a group of its name succeeded.
C28_RemoteGains ==
    given.pass = 1 =>
        /\ applier = "clb" =>
              \A g \in AppendedGroups :
                  /\ InCloud(g)
                  /\ \E i \in CallsTo("vgroup", "CreateVServerGroup") :
                        /\ calls[i].ok /\ calls[i].target = g.ServerGroupName
                        /\ \E n \in CallsTo("vgroup", "BatchAddVServerGroupBackendServers") :
                              n > i /\ calls[n].ok /\ calls[n].target = g.ServerGroupId
        /\ (applier = "nlb" /\ ~GroupPhaseUnderWay) =>
              \A g \in AppendedGroups :
                  InCloud(g) <=>
                      \E i \in CallsTo("vgroup", "CreateServerGroup") :
                          calls[i].ok /\ calls[i].target = g.ServerGroupName

\* The NLB applier returned after a failed creation: the remote model holds
\* the group, which is not in the cloud.
C28_Witness ==
    /\ applier = "nlb" /\ given.pass = 1 /\ apc = "done" /\ aret.set
    /\ \E g \in AppendedGroups :
          /\ ~InCloud(g)
          /\ \E i \in CallsTo("vgroup", "CreateServerGroup") :
                ~calls[i].ok /\ calls[i].target = g.ServerGroupName

\* The desired load balancer is reused and force-override is not set.
ReusedNoOverride == local.IsUserManaged /\ ~req.forceOverride

\* The listener phase of a reused load balancer without force-override makes
\* no call, sets no error and goes on to the cleanup.
C29_PhaseStep ==
    (apc = "lisPlan" /\ ReusedNoOverride) =>
        /\ apc' = "cleanup"
        /\ calls' = calls /\ errs' = errs /\ aret' = aret
        /\ cloud' = cloud /\ local' = local /\ remote' = remote

\* No listener call is made for a reused load balancer without
\* force-override and the listeners of the cloud stay as they were.
C29_NoListenerCall ==
    ReusedNoOverride =>
        /\ CallsOf("listener") = {}
        /\ cloud.listeners = given.cloud.listeners
        /\ apc # "lisExec"

\* C29: when the desired load balancer is user-managed (reused) and
\* force-override is not set, the listener phase of either applier issues no
\* listener create, update or delete and returns no error; every observed
\* listener of the load balancer is left as it was by the pass.
C29_ReusedListenersKept == []C29_NoListenerCall /\ [][C29_PhaseStep]_vars

\* Apply went through the listener phase of a reused load balancer whose
\* observed listeners are not the desired ones, and returned without error
\* and without a listener call.
C29_Witness ==
    /\ ReusedNoOverride /\ apc = "done" /\ aret.set /\ aret.err = <<>>
    /\ \E i \in CallsTo("build", "BuildRemoteModel") :
          calls[i].target = "listeners" /\ calls[i].ok
    /\ local.listeners # <<>> /\ cloud.listeners # <<>>
    /\ \A i \in 1..Len(local.listeners) : \A k \in 1..Len(cloud.listeners) :
          ~ListenerMatch(local.listeners[i], cloud.listeners[k])
    /\ cloud.listeners = given.cloud.listeners

\* C30: for every status entry batchAddRoutes has handled, the node of the
\* entry is either forgotten by the rate limiter, with its route in the node
\* cache, or requeued: exactly one of the two, and no entry is left neither
\* forgotten nor requeued.
C30_ForgottenOrRequeued ==
    bop = "batchAddRoutes" =>
        \A i \in 1..Len(blog) :
            /\ blog[i].requeued \/ blog[i].forgotten
            /\ ~(blog[i].requeued /\ blog[i].forgotten)
            /\ blog[i].forgotten => blog[i].cached

\* The positions of a function between routeLock.Lock() and the deferred
\* routeLock.Unlock().
HoldingPcs == {"backoff", "CreateRoute", "FindRoute", "DeleteRoute", "CreateRoutes",
               "DeleteRoutes", "unlock"}

\* A caller holds the lock exactly between Lock and Unlock: not while it
\* waits for the lock, and not after its function returned, whatever it
\* returned.
C31_LockDiscipline ==
    /\ routeLock \in Callers \cup {0}
    /\ \A p \in Callers : routeLock = p <=> rpc[p] \in HoldingPcs

\* A caller waiting for the lock gets it and its function returns.
C31_WaiterCompletes == \A p \in Callers : (rpc[p] = "lock") ~> (rpc[p] = "done")

\* While a caller waits, the lock is free or its holder can take a step:
\* there is no deadlock.
C31_NoDeadlock ==
    (\E p \in Callers : rpc[p] = "lock") =>
        \/ routeLock = 0
        \/ \E q \in Callers :
              /\ routeLock = q
              /\ ENABLED (\/ BackoffAttempt(q)
                          \/ \E ans \in CreateAnswers : CreateRouteReturn(q, ans)
                          \/ \E ans \in FindAnswers : FindRouteReturn(q, ans)
                          \/ \E ans \in PlainAnswers : PlainReturn(q, ans)
                          \/ Unlock(q))

\* C31: each of createRouteForInstance, deleteRouteForInstance,
\* LockedCreateRoutes and LockedDeleteRoutes releases the route lock on every
\* exit path and never asks for the lock while it holds it; with concurrent
\* callers, fair scheduling and cloud calls that return, there is no
\* deadlock and every caller that waits for the lock gets it and completes.
C31_LockLiveness ==
    /\ []C31_LockDiscipline
    /\ []C31_NoDeadlock
    /\ C31_WaiterCompletes

\* A function has returned an error and released the lock, and another
\* caller has taken the lock since and is in its cloud call.
C31_Witness ==
    \E p, q \in Callers :
        /\ p # q
        /\ rpc[p] = "done" /\ rout[p].err = "error"
        /\ routeLock = q /\ rpc[q] \in MutationPcs

=============================================================================
